---- MODULE Spec2Model ----
(***************************************************************************)
(* Farm Manager Bot: the multi-account orchestrator (BotOrchestrator), the *)
(* per-account bot cycle (FarmBot), the task normalizer (FarmService) and   *)
(* the equipment resolver (TractorService).                                 *)
(*                                                                          *)
(* Times are epoch milliseconds as in the source (Date.now()).  JavaScript  *)
(* runs one callback at a time: every action below is the code executed     *)
(* between two suspension points (an await on network I/O or a timer).      *)
(***************************************************************************)
EXTENDS Integers, Sequences, FiniteSets, Bags

VARIABLES
    \* ---- BotOrchestrator (src/unnamed/part_011) ----
    now,            \* Date.now()
    enabled,        \* ConfigManager: account id -> enabled flag
    isRunning,      \* BotOrchestrator.isRunning
    sessions,       \* BotOrchestrator.sessions: account id -> AccountSession
    mapData,        \* insertion order of the keys of the sessions Map
    totalCycles,    \* BotOrchestrator.totalCycles
    mainLoopTimeout,\* BotOrchestrator.mainLoopTimeout: "null", or a timer handle ("armed" / "fired")
    loops,          \* bag of runMainLoop chains: a pending poll timer, or a loop body awaiting a cycle
    starts,         \* start() invocations in flight, by the index of the account being authenticated
    startCount,     \* number of start() calls so far
    startsIgnored,  \* number of start() calls that returned at the isRunning guard (history)
    \* ---- FarmBot and FarmService of one account ----
    farmBot,        \* the FarmBot instance of the session: its source copy and its config
    harvestCache,   \* FarmService.harvestCache: userFarmlandId -> timestamp (0: no entry)
    cycle,          \* position of FarmBot.runCycle: pass, tasks fetched, tasks left
    lastTask,       \* what the latest executeTask did (history)
    lastHarvest,    \* per field, when the remote last accepted a harvest (history)
    attempted,      \* the tasks the loops of the running cycle have taken up (history,
                    \* kept where recording is set)
    \* ---- FarmService: task extraction ----
    snapshot,       \* the farms object of a tab response
    taskType,       \* the pass the tasks are extracted for
    extracted,      \* the AvailableTask[] returned
    \* ---- TractorService: equipment resolution ----
    request,        \* arguments and remote responses of getOptimalTractorsForOperation
    optimal,        \* its result
    \* ---- ApiClient: the sessions of one account ----
    currentBT,      \* ApiClient.currentBT of each client (0: the empty string)
    inFlight,       \* the requests awaiting their response
    issuedBT,       \* the number of anti-replay tokens the remote has issued
    latestBT,       \* per client, the token of the latest response that held one (history)
    \* ---- SeedService and the persisted crop overrides ----
    farmData,       \* the account's farm data: farmland id -> configuredCropId
    seedRequest,    \* arguments of prepareForSeeding and the remote data it reads
    seedReply,      \* which remote requests failed during prepareForSeeding
    bestSeed,       \* what getBestSeedForFarmland returned
    prepared,       \* what prepareForSeeding returned, and the amount it ordered
    \* ---- FuelService ----
    fuelStatus,     \* the fuel silo response checkAndBuyFuel read
    fuelOrder,      \* the amount it handed to buyFuel, and its return value
    \* ---- authentication of the accounts (ConfigManager, AuthService) ----
    accountAuth,    \* ConfigManager: account id -> account.auth (type, androidToken)
    authCalls,      \* per account, the authenticateAccount call in flight and the last result
    guestIdentities \* per account, the guest identities the remote has created for it (history)

orchVars == <<now, enabled, isRunning, sessions, mapData, totalCycles,
              mainLoopTimeout, loops, starts, startCount, startsIgnored>>

farmVars == <<farmBot, harvestCache, cycle, lastTask, lastHarvest, attempted,
              snapshot, taskType, extracted>>

resolverVars == <<request, optimal>>

apiVars == <<currentBT, inFlight, issuedBT, latestBT>>

seedVars == <<farmData, seedRequest, seedReply, bestSeed, prepared>>

fuelVars == <<fuelStatus, fuelOrder>>

supplyVars == <<seedVars, fuelVars>>

authVars == <<accountAuth, authCalls, guestIdentities>>

vars == <<orchVars, farmVars, resolverVars, apiVars, supplyVars, authVars>>

----------------------------------------------------------------------------
(* Bounds of the model *)

MaxTicks  == 1      \* clock advances per behaviour
MaxStarts == 2      \* start() calls per behaviour
RandDenom == 3      \* Math.random() is drawn from {0/RandDenom .. (RandDenom-1)/RandDenom}

(* Program constants *)

POLL_PERIOD_MS    == 10000     \* setTimeout(() => this.runMainLoop(), 10000)
RETRY_INTERVAL_MS == 60000     \* const retryInterval = 60000
NIGHT_START_HOUR  == 2         \* currentHour >= 2
NIGHT_END_HOUR    == 6         \* currentHour < 6

MS_PER_HOUR == 60 * 60 * 1000
TickMs      == 2 * 60 * 1000                     \* the clock is observed every two minutes
StartTime   == 1 * MS_PER_HOUR + 58 * TickMs \* the process is started at 01:58

Accounts    == {1, 2}
AccountList == <<1, 2>>                      \* ConfigManager.getAccounts()

\* account.settings of the two configured accounts (no validation is applied to
\* them on write; account 2 has min and max swapped)
Settings(a) ==
    IF a = 1
    THEN [checkIntervalMinMs |-> 120000, checkIntervalMaxMs |-> 120001, pauseAtNight |-> TRUE]
    ELSE [checkIntervalMinMs |-> 120001, checkIntervalMaxMs |-> 120000, pauseAtNight |-> FALSE]

Null == 0 - 1       \* a null Date

\* no entry in the sessions Map
NoSession == [present |-> FALSE, lastCycle |-> Null, nextCycle |-> Null, cycleCount |-> 0,
              error |-> "null"]

\* a pending poll timer; handle: mainLoopTimeout names it
TimerLoop(due) == [pc |-> "timer", due |-> due, nowSnap |-> Null, pos |-> 0, acct |-> 0,
                   live |-> FALSE]

\* a loop body awaiting runAccountCycle of the account at iterator position pos;
\* live: the AccountSession object it holds is still the one in the sessions Map
CycleLoop(nowSnap, pos, acct, live) ==
    [pc |-> "cycle", due |-> Null, nowSnap |-> nowSnap, pos |-> pos, acct |-> acct,
     live |-> live]

SetMin(S) == CHOOSE x \in S : \A y \in S : x <= y

BagAdd(B, e) == B (+) SetToBag({e})
BagRemove(B, e) == B (-) SetToBag({e})

----------------------------------------------------------------------------
(* Pure helpers of the orchestrator *)

\* ConfigManager.getAccounts().filter(acc => acc.enabled)
RECURSIVE FilterEnabled(_, _)
FilterEnabled(list, en) ==
    IF list = <<>> THEN <<>>
    ELSE IF en[Head(list)] THEN <<Head(list)>> \o FilterEnabled(Tail(list), en)
         ELSE FilterEnabled(Tail(list), en)

\* Date.getHours() of a timestamp (local time taken as UTC)
HourOf(t) == (t \div MS_PER_HOUR) % 24

\* the blackout window 02:00-06:00 of FarmBot.scheduleNextRun
InBlackout(t) == HourOf(t) >= NIGHT_START_HOUR /\ HourOf(t) < NIGHT_END_HOUR

\* a scheduler whose random range is one too wide
NextIntervalTooWide(minInterval, maxInterval, k) ==
    ((k * (maxInterval - minInterval + 2)) \div RandDenom) + minInterval

\* Math.floor(Math.random() * (maxInterval - minInterval + 1)) + minInterval,
\* with Math.random() = k / RandDenom
NextInterval(minInterval, maxInterval, k) ==
    ((k * (maxInterval - minInterval + 1)) \div RandDenom) + minInterval

\* FarmBot.runCycle wraps its whole body in try/catch and only logs the error:
\* the promise it returns is never rejected, whether or not a pass threw.
RunCycleRejects(threw) == FALSE

\* sessions.size
SessionCount(ss) == Cardinality({a \in Accounts : ss[a].present})

\* the AccountSession created by authenticateAndSetupAccount
NewSession(t) ==
    [present |-> TRUE, lastCycle |-> Null, nextCycle |-> t, cycleCount |-> 0, error |-> "null"]

\* sessions.set(account.id, ...): a key already in the Map keeps its position
MapSet(md, a) == IF \E j \in 1 .. Len(md) : md[j] = a THEN md ELSE Append(md, a)

\* a main loop that goes on although the orchestrator was stopped
LoopAfterWhileStopped(pos, nowSnap, ss, md, running, t) ==
    LET due == {j \in (pos + 1) .. Len(md) : ss[md[j]].nextCycle <= nowSnap}
    IN  IF due = {}
        THEN SetToBag({TimerLoop(t + POLL_PERIOD_MS)})
        ELSE SetToBag({CycleLoop(nowSnap, SetMin(due), md[SetMin(due)], TRUE)})

\* a main loop that ends without arming the poll timer when no account is due
LoopAfterNoPoll(pos, nowSnap, ss, md, running, t) ==
    IF ~running THEN EmptyBag
    ELSE LET due == {j \in (pos + 1) .. Len(md) : ss[md[j]].nextCycle <= nowSnap}
         IN  IF due = {}
             THEN EmptyBag
             ELSE SetToBag({CycleLoop(nowSnap, SetMin(due), md[SetMin(due)], TRUE)})

\* a main loop that runs the next account of the Map whether it is due or not
LoopAfterNotDue(pos, nowSnap, ss, md, running, t) ==
    IF ~running THEN EmptyBag
    ELSE LET due == (pos + 1) .. Len(md)
         IN  IF due = {}
             THEN SetToBag({TimerLoop(t + POLL_PERIOD_MS)})
             ELSE SetToBag({CycleLoop(nowSnap, SetMin(due), md[SetMin(due)], TRUE)})

\* runMainLoop from iterator position pos on, up to its next suspension point:
\* it awaits the cycle of the first due account, or arms the poll timer, or
\* (not running) returns.  The result is the bag of what the loop leaves behind.
LoopAfter(pos, nowSnap, ss, md, running, t) ==
    IF ~running THEN EmptyBag
    ELSE LET due == {j \in (pos + 1) .. Len(md) : ss[md[j]].nextCycle <= nowSnap}
         IN  IF due = {}
             THEN SetToBag({TimerLoop(t + POLL_PERIOD_MS)})
             ELSE SetToBag({CycleLoop(nowSnap, SetMin(due), md[SetMin(due)], TRUE)})

\* this.mainLoopTimeout = setTimeout(...) when the loop armed its timer
HandleAfter(left, handle) ==
    IF \E l \in BagToSet(left) : l.pc = "timer" THEN "armed" ELSE handle

\* a runAccountCycle that does not count the cycle on the session
AfterCycleUncounted(sess, rejected, cfg, k, t) ==
    IF rejected
    THEN [sess EXCEPT !.error = "message", !.lastCycle = t,
                      !.nextCycle = t + RETRY_INTERVAL_MS]
    ELSE [sess EXCEPT !.lastCycle = t, !.error = "null",
                      !.nextCycle = t + NextInterval(cfg.checkIntervalMinMs,
                                                     cfg.checkIntervalMaxMs, k)]

\* a runAccountCycle that schedules nothing after the cycle
AfterCycleUnscheduled(sess, rejected, cfg, k, t) == sess

\* runAccountCycle after session.bot.runCycle() has settled: the update of the
\* AccountSession object the loop holds
AfterCycle(sess, rejected, cfg, k, t) ==
    IF rejected
    THEN [sess EXCEPT !.error = "message", !.lastCycle = t,
                      !.nextCycle = t + RETRY_INTERVAL_MS]
    ELSE [sess EXCEPT !.lastCycle = t, !.cycleCount = @ + 1, !.error = "null",
                      !.nextCycle = t + NextInterval(cfg.checkIntervalMinMs,
                                                     cfg.checkIntervalMaxMs, k)]

\* the loop bodies in flight lose their AccountSession of account a from the Map
Orphan(l, a) == IF l.pc = "cycle" /\ l.acct = a THEN [l EXCEPT !.live = FALSE] ELSE l

\* sessions.clear(): a live Map iterator restarts on the entries added afterwards
Cleared(l) == IF l.pc = "cycle" THEN [l EXCEPT !.live = FALSE, !.pos = 0] ELSE l

----------------------------------------------------------------------------
(* Actions of the orchestrator *)

\* the clock advances
Tick ==
    /\ now < StartTime + MaxTicks * TickMs
    /\ now' = now + TickMs
    /\ UNCHANGED <<enabled, isRunning, sessions, mapData, totalCycles,
                   mainLoopTimeout, loops, starts, startCount, startsIgnored>>
    /\ UNCHANGED <<farmVars, resolverVars, apiVars, supplyVars, authVars>>

\* a start() without the isRunning guard
StartUnguarded ==
    /\ startCount < MaxStarts
    /\ startCount' = startCount + 1
    /\ startsIgnored' = IF isRunning THEN startsIgnored + 1 ELSE startsIgnored
    /\ totalCycles' = 0
    /\ IF FilterEnabled(AccountList, enabled) = <<>>
       THEN /\ isRunning' = FALSE
            /\ UNCHANGED starts
       ELSE /\ isRunning' = TRUE
            /\ starts' = [starts EXCEPT ![1] = @ + 1]
    /\ UNCHANGED <<now, enabled, sessions, mapData, mainLoopTimeout, loops>>
    /\ UNCHANGED <<farmVars, resolverVars, apiVars, supplyVars, authVars>>

\* BotOrchestrator.start(), up to its first await
Start ==
    /\ startCount < MaxStarts
    /\ startCount' = startCount + 1
    /\ IF isRunning
       THEN /\ startsIgnored' = startsIgnored + 1
            /\ UNCHANGED <<isRunning, totalCycles, starts>>
       ELSE /\ UNCHANGED startsIgnored
            /\ totalCycles' = 0
            /\ IF FilterEnabled(AccountList, enabled) = <<>>
               THEN /\ isRunning' = FALSE
                    /\ UNCHANGED starts
               ELSE /\ isRunning' = TRUE
                    /\ starts' = [starts EXCEPT ![1] = @ + 1]
    /\ UNCHANGED <<now, enabled, sessions, mapData, mainLoopTimeout, loops>>
    /\ UNCHANGED <<farmVars, resolverVars, apiVars, supplyVars, authVars>>

\* start(): authenticateAndSetupAccount settles for the i-th enabled account;
\* after the last account the main loop is entered.
AuthResolve(i, ok) ==
    /\ starts[i] > 0
    /\ LET accs == FilterEnabled(AccountList, enabled)
           a    == accs[i]
           ss   == IF ok THEN [sessions EXCEPT ![a] = NewSession(now)] ELSE sessions
           md   == IF ok THEN MapSet(mapData, a) ELSE mapData
           lps  == IF ok THEN BagOfAll(LAMBDA l : Orphan(l, a), loops) ELSE loops
       IN /\ sessions' = ss
          /\ mapData' = md
          /\ IF i < Len(accs)
             THEN /\ starts' = [starts EXCEPT ![i] = @ - 1, ![i + 1] = @ + 1]
                  /\ loops' = lps
                  /\ UNCHANGED <<isRunning, mainLoopTimeout>>
             ELSE /\ starts' = [starts EXCEPT ![i] = @ - 1]
                  /\ IF SessionCount(ss) = 0
                     THEN /\ isRunning' = FALSE
                          /\ loops' = lps
                          /\ UNCHANGED mainLoopTimeout
                     ELSE /\ UNCHANGED isRunning
                          /\ LET left == LoopAfter(0, now, ss, md, isRunning, now)
                             IN /\ loops' = lps (+) left
                                /\ mainLoopTimeout' = HandleAfter(left, mainLoopTimeout)
    /\ UNCHANGED <<now, enabled, totalCycles, startCount, startsIgnored>>
    /\ UNCHANGED <<farmVars, resolverVars, apiVars, supplyVars, authVars>>

\* a pending poll timer fires: runMainLoop().  byHandle: it is the timer that
\* mainLoopTimeout names (the latest one armed).
TimerFire(l, byHandle) ==
    /\ BagIn(l, loops)
    /\ l.pc = "timer"
    /\ now >= l.due
    /\ IF byHandle
       THEN mainLoopTimeout = "armed" /\ \A m \in BagToSet(loops) : m.pc = "timer" => m.due <= l.due
       ELSE mainLoopTimeout # "armed" \/ CopiesIn(l, loops) > 1
                \/ \E m \in BagToSet(loops) : m.pc = "timer" /\ m.due > l.due
    /\ LET left == LoopAfter(0, now, sessions, mapData, isRunning, now)
       IN /\ loops' = BagRemove(loops, l) (+) left
          /\ mainLoopTimeout' = HandleAfter(left, IF byHandle THEN "fired" ELSE mainLoopTimeout)
    /\ UNCHANGED <<now, enabled, isRunning, sessions, mapData, totalCycles,
                   starts, startCount, startsIgnored>>
    /\ UNCHANGED <<farmVars, resolverVars, apiVars, supplyVars, authVars>>

\* session.bot.runCycle() settles (threw: a pass of the cycle threw, for example
\* a state fetch failed): the rest of runAccountCycle, then the rest of
\* runMainLoop up to its next suspension point
FinishCycle(l, threw, k) ==
    /\ BagIn(l, loops)
    /\ l.pc = "cycle"
    /\ LET a        == l.acct
           rejected == RunCycleRejects(threw)
           ss       == IF l.live
                       THEN [sessions EXCEPT ![a] = AfterCycle(@, rejected, Settings(a), k, now)]
                       ELSE sessions
           left     == LoopAfter(l.pos, l.nowSnap, ss, mapData, isRunning, now)
       IN /\ sessions' = ss
          /\ totalCycles' = IF rejected THEN totalCycles ELSE totalCycles + 1
          /\ loops' = BagRemove(loops, l) (+) left
          /\ mainLoopTimeout' = HandleAfter(left, mainLoopTimeout)
    /\ UNCHANGED <<now, enabled, isRunning, mapData, starts, startCount, startsIgnored>>
    /\ UNCHANGED <<farmVars, resolverVars, apiVars, supplyVars, authVars>>

\* BotOrchestrator.stop()
Stop ==
    /\ isRunning' = FALSE
    /\ mainLoopTimeout' = "null"
    /\ sessions' = [a \in Accounts |-> NoSession]
    /\ mapData' = <<>>
    /\ LET named == {l \in BagToSet(loops) :
                        /\ l.pc = "timer"
                        /\ mainLoopTimeout = "armed"
                        /\ \A m \in BagToSet(loops) : m.pc = "timer" => m.due <= l.due}
           kept  == IF named = {} THEN loops
                    ELSE BagRemove(loops, CHOOSE l \in named : TRUE)
       IN loops' = BagOfAll(Cleared, kept)
    /\ UNCHANGED <<now, enabled, totalCycles, starts, startCount, startsIgnored>>
    /\ UNCHANGED <<farmVars, resolverVars, apiVars, supplyVars, authVars>>

----------------------------------------------------------------------------
(* FarmService: the task normalizer (src/src/services/FarmService.ts) *)

NumFields == 2      \* fields (farmlands) of the account

MIN_HARVEST_INTERVAL_MS == 6 * 60 * 60 * 1000

Fields     == 1 .. NumFields
FarmIds    == {1, 2}
CropTypes  == {1, 2}
States     == {"raw", "cleared", "plowed", "fertilized", "seeded"}

\* Object.entries of an object with integer keys: ascending key order
RECURSIVE Ascending(_)
Ascending(S) == IF S = {} THEN <<>> ELSE <<SetMin(S)>> \o Ascending(S \ {SetMin(S)})

\* a FarmlandData record of a tab response; the remote lists a field once, under
\* its farm and under the category of its farmlandState
FarmlandData(id, farmId, state) ==
    [id |-> id, farmlandId |-> 100 + id, farmId |-> farmId, farmlandState |-> state]

\* where the remote holds a field: not listed, or a farm and a state
Placements == {[farmId |-> 0, state |-> "none"]} \cup [farmId : FarmIds, state : States]

\* the categories that list at least one field
Occupied(place) == {<<place[f].farmId, place[f].state>> : f \in {g \in Fields : place[g].farmId # 0}}

\* response.farms of the cultivating / seeding tab: farms[farmId].farmlands[state]
\* = {canCultivate, data}; blocked: the categories the remote reports with
\* canCultivate = 0
TabSnapshot(place, blocked) ==
    LET ids(farmId, s) == {f \in Fields : place[f] = [farmId |-> farmId, state |-> s]}
        category(farmId, s) ==
            [present      |-> ids(farmId, s) # {},
             canCultivate |-> IF <<farmId, s>> \in blocked THEN 0
                              ELSE Cardinality(ids(farmId, s)),
             data         |-> LET order == Ascending(ids(farmId, s))
                              IN  [j \in 1 .. Len(order) |-> FarmlandData(order[j], farmId, s)]]
        farmSeq == Ascending(FarmIds)
    IN  [i \in 1 .. Len(farmSeq) |->
            [farmId |-> farmSeq[i], farmlands |-> [s \in States |-> category(farmSeq[i], s)]]]

TabSnapshots ==
    UNION {{TabSnapshot(place, blocked) : blocked \in SUBSET Occupied(place)} :
                place \in [Fields -> Placements]}

\* where the harvest tab holds a field: not listed, or a farm, a crop type and
\* the field's canHarvest flag
HarvestPlacements ==
    {[farmId |-> 0, crop |-> 0, canHarvest |-> 0]}
        \cup [farmId : FarmIds, crop : CropTypes, canHarvest : {0, 1}]

HarvestOccupied(place) ==
    {<<place[f].farmId, place[f].crop>> : f \in {g \in Fields : place[g].farmId # 0}}

\* response.farms of the harvest tab: farms[farmId].farmlands[cropTypeId]
\* = {canHarvest, data}
HarvestSnapshot(place, blocked) ==
    LET ids(farmId, c) == {f \in Fields : place[f].farmId = farmId /\ place[f].crop = c}
        cropData(farmId, c) ==
            [present    |-> ids(farmId, c) # {},
             canHarvest |-> IF <<farmId, c>> \in blocked THEN 0 ELSE 1,
             data       |-> LET order == Ascending(ids(farmId, c))
                            IN  [j \in 1 .. Len(order) |->
                                    [id |-> order[j], farmlandId |-> 100 + order[j],
                                     canHarvest |-> place[order[j]].canHarvest]]]
        farmSeq == Ascending(FarmIds)
        cropSeq == Ascending(CropTypes)
    IN  [i \in 1 .. Len(farmSeq) |->
            [farmId |-> farmSeq[i],
             farmlands |-> [k \in 1 .. Len(cropSeq) |-> cropData(farmSeq[i], cropSeq[k])]]]

HarvestSnapshots ==
    UNION {{HarvestSnapshot(place, blocked) : blocked \in SUBSET HarvestOccupied(place)} :
                place \in [Fields -> HarvestPlacements]}

\* an AvailableTask
Task(type, farmId, fl) ==
    [type |-> type, farmId |-> farmId, farmlandId |-> fl.farmlandId, userFarmlandId |-> fl.id]

\* a cooldown that ends one millisecond early
canHarvestTooEarly(cache, userFarmlandId, t) ==
    IF cache[userFarmlandId] = 0 THEN TRUE
    ELSE t - cache[userFarmlandId] >= MIN_HARVEST_INTERVAL_MS - 1

\* FarmService.canHarvest
canHarvest(cache, userFarmlandId, t) ==
    IF cache[userFarmlandId] = 0 THEN TRUE
    ELSE t - cache[userFarmlandId] >= MIN_HARVEST_INTERVAL_MS

\* a normalizer that does not look at the cultivate capacity of the category
CategoryTasksUngated(category, farmId, type) ==
    IF category.present
    THEN [j \in 1 .. Len(category.data) |-> Task(type, farmId, category.data[j])]
    ELSE <<>>

\* the loop over one category of a farm: a task per listed field if the category
\* has cultivate capacity
CategoryTasks(category, farmId, type) ==
    IF category.present /\ category.canCultivate > 0
    THEN [j \in 1 .. Len(category.data) |-> Task(type, farmId, category.data[j])]
    ELSE <<>>

\* a normalizer whose seeding pass reads the plowed category in both of its blocks
FarmTasksPlowedTwice(farmId, farmlands, type) ==
    IF type = "cultivating"
    THEN CategoryTasks(farmlands["cleared"], farmId, "plowing")
            \o CategoryTasks(farmlands["raw"], farmId, "clearing")
    ELSE IF type = "seeding"
    THEN CategoryTasks(farmlands["plowed"], farmId, "seeding")
            \o CategoryTasks(farmlands["plowed"], farmId, "seeding")
    ELSE CategoryTasks(farmlands["plowed"], farmId, "fertilizing")

\* the body of the loop over farms in extractTasksFromFarms
FarmTasks(farmId, farmlands, type) ==
    IF type = "cultivating"
    THEN CategoryTasks(farmlands["cleared"], farmId, "plowing")
            \o CategoryTasks(farmlands["raw"], farmId, "clearing")
    ELSE IF type = "seeding"
    THEN CategoryTasks(farmlands["fertilized"], farmId, "seeding")
            \o CategoryTasks(farmlands["plowed"], farmId, "seeding")
    ELSE CategoryTasks(farmlands["plowed"], farmId, "fertilizing")

\* FarmService.extractTasksFromFarms
RECURSIVE extractTasksFromFarms(_, _)
extractTasksFromFarms(farms, type) ==
    IF farms = <<>> THEN <<>>
    ELSE FarmTasks(Head(farms).farmId, Head(farms).farmlands, type)
            \o extractTasksFromFarms(Tail(farms), type)

\* a harvest pass that does not look at the canHarvest flag of the field
RECURSIVE CropTasksUnflagged(_, _, _, _)
CropTasksUnflagged(data, farmId, cache, t) ==
    IF data = <<>> THEN <<>>
    ELSE (IF canHarvest(cache, Head(data).id, t)
          THEN <<Task("harvesting", farmId, Head(data))>> ELSE <<>>)
            \o CropTasksUnflagged(Tail(data), farmId, cache, t)

\* the loop over the fields of one crop type in extractHarvestTasks
RECURSIVE CropTasks(_, _, _, _)
CropTasks(data, farmId, cache, t) ==
    IF data = <<>> THEN <<>>
    ELSE (IF Head(data).canHarvest = 1 /\ canHarvest(cache, Head(data).id, t)
          THEN <<Task("harvesting", farmId, Head(data))>> ELSE <<>>)
            \o CropTasks(Tail(data), farmId, cache, t)

\* the loop over the crop types of one farm in extractHarvestTasks
RECURSIVE FarmHarvestTasks(_, _, _, _)
FarmHarvestTasks(crops, farmId, cache, t) ==
    IF crops = <<>> THEN <<>>
    ELSE (IF Head(crops).present /\ Head(crops).canHarvest = 1
          THEN CropTasks(Head(crops).data, farmId, cache, t) ELSE <<>>)
            \o FarmHarvestTasks(Tail(crops), farmId, cache, t)

\* FarmService.extractHarvestTasks
RECURSIVE extractHarvestTasks(_, _, _)
extractHarvestTasks(farms, cache, t) ==
    IF farms = <<>> THEN <<>>
    ELSE FarmHarvestTasks(Head(farms).farmlands, Head(farms).farmId, cache, t)
            \o extractHarvestTasks(Tail(farms), cache, t)

----------------------------------------------------------------------------
(* FarmBot: one cycle of one account (src/src/services/FuelService.ts,
   lines 156-771, and the second copy in src/unnamed/part_011, lines 395-969) *)

MAX_OPERATION_SECONDS == 6 * 3600

CooldownTickMs == 6 * MS_PER_HOUR       \* the clock is observed once per cooldown period
CycleTime      == 8 * MS_PER_HOUR       \* the first cycle starts at 08:00

\* the two FarmBot sources of the repository
FarmBotCopies == {"FuelService.ts", "part_011"}

\* estimated durations (seconds) the resolver reports: at the cap and beyond it
Durations == {MAX_OPERATION_SECONDS, MAX_OPERATION_SECONDS + 1}

IdleCycle == [pass |-> "idle", fetched |-> FALSE, tasks |-> <<>>]

NoTask == [resolved |-> FALSE, estimatedDuration |-> 0, disableMaxTaskDuration |-> FALSE,
           called |-> FALSE, result |-> "none"]

\* new FarmBot(config): its FarmService starts with an empty harvest cache
NewHarvestCache == [f \in Fields |-> 0]

\* a cycle that cultivates before it seeds
NextPassCultivatingFirst(pass) ==
    IF pass = "harvesting" THEN "cultivating"
    ELSE IF pass = "cultivating" THEN "seeding"
    ELSE "selling"

\* the pass after a task pass
NextPass(pass) ==
    IF pass = "harvesting" THEN "seeding"
    ELSE IF pass = "seeding" THEN "cultivating"
    ELSE "selling"

\* the for loop over the tasks of a pass: when no task is left the pass returns and
\* runCycle awaits the next pass
Advance(cyc) ==
    IF cyc.fetched /\ cyc.tasks = <<>>
    THEN [pass |-> NextPass(cyc.pass), fetched |-> FALSE, tasks |-> <<>>]
    ELSE cyc

\* a loop that keeps a task that did not succeed for another iteration
TasksLeftRetrying(tasks, ok) == IF ok THEN Tail(tasks) ELSE tasks

\* for (const task of tasks): the tasks left after an iteration, whatever its outcome
TasksLeft(tasks, ok) == Tail(tasks)

\* what identifies a task: the field and the operation
TaskKey(task) == <<task.userFarmlandId, task.type>>

\* the history of the tasks taken up, empty outside a cycle
NoAttempts(recording) == [recording |-> recording, keys |-> {}]

\* the tasks taken up so far in the cycle; forgotten when the cycle ends
AttemptedAfter(cyc, history, new) ==
    IF history.recording /\ cyc.pass # "idle"
    THEN [history EXCEPT !.keys = @ \cup new]
    ELSE [history EXCEPT !.keys = {}]

\* the duration check of executeMultiTractorTask, executeMultiHarvesterTask and
\* executeSingleTractorTask: the task is ignored
TooLong(copy, estimatedDuration, disableMaxTaskDuration) ==
    IF copy = "part_011"
    THEN estimatedDuration > MAX_OPERATION_SECONDS
    ELSE estimatedDuration > MAX_OPERATION_SECONDS /\ ~disableMaxTaskDuration

\* time passes
Wait ==
    /\ now < CycleTime + MaxTicks * CooldownTickMs
    /\ now' = now + CooldownTickMs
    /\ UNCHANGED <<enabled, isRunning, sessions, mapData, totalCycles, mainLoopTimeout,
                   loops, starts, startCount, startsIgnored>>
    /\ UNCHANGED <<farmBot, harvestCache, cycle, lastTask, lastHarvest, attempted,
                   snapshot, taskType, extracted>>
    /\ UNCHANGED <<resolverVars, apiVars, supplyVars, authVars>>

\* BotOrchestrator.stop() and start() between two cycles: authenticateAndSetupAccount
\* replaces the session's bot by new FarmBot(config), with the settings of the
\* account as they are then
NewFarmBot(disableMaxTaskDuration) ==
    /\ cycle.pass = "idle"
    /\ farmBot' = [farmBot EXCEPT !.disableMaxTaskDuration = disableMaxTaskDuration]
    /\ harvestCache' = NewHarvestCache
    /\ UNCHANGED <<cycle, lastTask, lastHarvest, attempted, snapshot, taskType, extracted>>
    /\ UNCHANGED <<orchVars, resolverVars, apiVars, supplyVars, authVars>>

\* FarmBot.runCycle() is called: it awaits fuelService.checkAndBuyFuel()
RunCycle ==
    /\ cycle.pass = "idle"
    /\ cycle' = [pass |-> "refuel", fetched |-> FALSE, tasks |-> <<>>]
    /\ UNCHANGED <<farmBot, harvestCache, lastTask, lastHarvest, attempted,
                   snapshot, taskType, extracted>>
    /\ UNCHANGED <<orchVars, resolverVars, apiVars, supplyVars, authVars>>

\* checkAndBuyFuel settles; threw: the fuel request failed, runCycle's catch logs it
CheckAndBuyFuel(threw) ==
    /\ cycle.pass = "refuel"
    /\ cycle' = IF threw THEN IdleCycle
                ELSE [pass |-> "harvesting", fetched |-> FALSE, tasks |-> <<>>]
    /\ attempted' = AttemptedAfter(cycle', attempted, {})
    /\ UNCHANGED <<farmBot, harvestCache, lastTask, lastHarvest, snapshot, taskType, extracted>>
    /\ UNCHANGED <<orchVars, resolverVars, apiVars, supplyVars, authVars>>

\* getHarvestingTasks settles with the harvest tab; threw: the state fetch failed,
\* runCycle's catch logs it
GetHarvestingTasks(farms, threw) ==
    /\ cycle.pass = "harvesting"
    /\ ~cycle.fetched
    /\ cycle' =
         IF threw THEN IdleCycle
         ELSE Advance([pass |-> cycle.pass, fetched |-> TRUE,
                       tasks |-> extractHarvestTasks(farms, harvestCache, now)])
    /\ attempted' = AttemptedAfter(cycle', attempted, {})
    /\ UNCHANGED <<farmBot, harvestCache, lastTask, lastHarvest, snapshot, taskType, extracted>>
    /\ UNCHANGED <<orchVars, resolverVars, apiVars, supplyVars, authVars>>

\* getSeedingTasks / getCultivatingTasks settles with the tab; threw: the state
\* fetch failed, runCycle's catch logs it
GetTabTasks(farms, threw) ==
    /\ cycle.pass \in {"seeding", "cultivating"}
    /\ ~cycle.fetched
    /\ cycle' =
         IF threw THEN IdleCycle
         ELSE Advance([pass |-> cycle.pass, fetched |-> TRUE,
                       tasks |-> extractTasksFromFarms(farms, cycle.pass)])
    /\ attempted' = AttemptedAfter(cycle', attempted, {})
    /\ UNCHANGED <<farmBot, harvestCache, lastTask, lastHarvest, snapshot, taskType, extracted>>
    /\ UNCHANGED <<orchVars, resolverVars, apiVars, supplyVars, authVars>>

\* one iteration of the loop over the tasks of a pass: (seeding) prepareForSeeding,
\* then executeTask.
\*   prep:     prepareForSeeding returned a seed ("seed"), returned null ("null":
\*             no seed, or the purchase failed or threw) or rejected ("throws":
\*             the crop score or market request failed)
\*   resolved: the resolver returned equipment (it returns null when it throws)
\*   response: the remote reported failed = 0 ("success"), failed > 0 ("failed"),
\*             or the request failed ("throws")
\* executeTask returns the promise of the execute method without awaiting it, so
\* its catch does not see a rejection: the rejection reaches runCycle's catch.
ExecuteTask(prep, resolved, estimatedDuration, response) ==
    /\ cycle.fetched
    /\ cycle.tasks # <<>>
    /\ cycle.pass # "seeding" => prep = "seed"
    /\ LET task   == Head(cycle.tasks)
           usable == prep = "seed" /\ resolved
           called == usable /\ ~TooLong(farmBot.copy, estimatedDuration,
                                        farmBot.disableMaxTaskDuration)
           ok     == called /\ response = "success"
       IN /\ lastTask' = [resolved               |-> usable,
                          estimatedDuration      |-> IF usable THEN estimatedDuration ELSE 0,
                          disableMaxTaskDuration |-> farmBot.disableMaxTaskDuration,
                          called                 |-> called,
                          result                 |-> IF called THEN response ELSE "none"]
          /\ cycle' = IF prep = "throws" \/ (called /\ response = "throws")
                      THEN IdleCycle
                      ELSE Advance([cycle EXCEPT !.tasks = TasksLeft(@, ok)])
          /\ attempted' = AttemptedAfter(cycle', attempted, {TaskKey(task)})
          /\ IF ok /\ task.type = "harvesting"
             THEN /\ harvestCache' = [harvestCache EXCEPT ![task.userFarmlandId] = now]
                  /\ lastHarvest' = [lastHarvest EXCEPT ![task.userFarmlandId] = now]
             ELSE UNCHANGED <<harvestCache, lastHarvest>>
    /\ UNCHANGED <<farmBot, snapshot, taskType, extracted>>
    /\ UNCHANGED <<orchVars, resolverVars, apiVars, supplyVars, authVars>>

\* checkAndSellProducts settles (it catches its own errors): the cycle completes
CheckAndSellProducts ==
    /\ cycle.pass = "selling"
    /\ cycle' = IdleCycle
    /\ attempted' = AttemptedAfter(cycle', attempted, {})
    /\ UNCHANGED <<farmBot, harvestCache, lastTask, lastHarvest, snapshot, taskType, extracted>>
    /\ UNCHANGED <<orchVars, resolverVars, apiVars, supplyVars, authVars>>

\* the farm variables while no bot is modelled
FarmIdle ==
    /\ farmBot = [copy |-> "FuelService.ts", disableMaxTaskDuration |-> FALSE]
    /\ harvestCache = NewHarvestCache
    /\ cycle = IdleCycle
    /\ lastTask = NoTask
    /\ lastHarvest = [f \in Fields |-> Null]
    /\ attempted = NoAttempts(FALSE)
    /\ snapshot = <<>>
    /\ taskType = "none"
    /\ extracted = <<>>

\* FarmService.getCultivatingTasks / getSeedingTasks / getFertilizingTasks on a
\* tab response
ExtractTasks ==
    /\ taskType \in {"cultivating", "seeding", "fertilizing"}
    /\ extracted' = extractTasksFromFarms(snapshot, taskType)
    /\ UNCHANGED <<farmBot, harvestCache, cycle, lastTask, lastHarvest, attempted,
                   snapshot, taskType>>
    /\ UNCHANGED <<orchVars, resolverVars, apiVars, supplyVars, authVars>>

\* FarmService.getHarvestingTasks on a harvest tab response
ExtractHarvest ==
    /\ taskType = "harvesting"
    /\ extracted' = extractHarvestTasks(snapshot, harvestCache, now)
    /\ UNCHANGED <<farmBot, harvestCache, cycle, lastTask, lastHarvest, attempted,
                   snapshot, taskType>>
    /\ UNCHANGED <<orchVars, resolverVars, apiVars, supplyVars, authVars>>

----------------------------------------------------------------------------
(* TractorService: the equipment resolver (src/unnamed/part_002) *)

MaxUnits == 3       \* maxTractorsPerOp ranges over 0 .. MaxUnits

DEFAULT_MAX_IDLE_MINUTES == 30      \* maxIdleTimeMinutes: 30

HaHours    == {0, 1, 2}             \* throughputs (ha/hour) the remote reports
Areas      == {1, 100}              \* field areas (ha)
TimeRemain == {0, 1000000}          \* opTimeRemain (seconds) of a pending operation
Infinity   == 2000000000            \* stands for the IEEE infinity of area / 0

\* a tractor of response.tractors.  equipped: of the operation's type with its
\* implement; bare: no implement; other: carrying the implement of another
\* operation; pending: busy
Tractor(id, kind, haHour, opType) ==
    [id |-> id,
     type |-> IF kind \in {"equipped", "pending"} THEN opType ELSE "other",
     isPending |-> kind = "pending",
     hasImplement |-> kind # "bare",
     hp |-> 100,
     haHour |-> haHour,
     implementId |-> IF kind = "bare" THEN 0 ELSE 10 + id]

TractorKinds == {"equipped", "bare", "other", "pending"}

\* response.tractors: up to two tractors of any kind, or three equipped ones
TractorLists(opType) ==
    {<<>>}
      \cup {<<Tractor(1, k, h, opType)>> : k \in TractorKinds, h \in HaHours}
      \cup {<<Tractor(1, kh[1], kh[2], opType), Tractor(2, kh[3], kh[4], opType)>> :
                kh \in TractorKinds \X HaHours \X TractorKinds \X HaHours}
      \cup {<<Tractor(1, "equipped", h[1], opType), Tractor(2, "equipped", h[2], opType),
              Tractor(3, "equipped", h[3], opType)>> : h \in {1, 2} \X {1, 2} \X {1, 2}}

\* response.implements: none, one, or two available ones of the operation's type
ImplementLists(opType) ==
    {<<>>}
      \cup {<<[id |-> 20, type |-> ta[1], available |-> ta[2], minHp |-> hp, haHour |-> h]>> :
                ta \in {<<opType, 1>>, <<opType, 0>>, <<"other", 1>>},
                hp \in {50, 150}, h \in {0, 7}}
      \cup {<<[id |-> 20, type |-> opType, available |-> 1, minHp |-> hp[1], haHour |-> 7],
              [id |-> 21, type |-> opType, available |-> 1, minHp |-> hp[2], haHour |-> 0]>> :
                hp \in {50, 150} \X {50, 150}}

\* the operations of the pending tab in the farm: none, one or two
PendingLists ==
    {<<>>}
      \cup {<<[opTimeRemain |-> r]>> : r \in TimeRemain}
      \cup {<<[opTimeRemain |-> r], [opTimeRemain |-> 0]>> : r \in TimeRemain}

\* details.equipment[opType] of a farmland (harvesting, clearing): its data and
\* up to two units; a unit without haHour reads as haHour 0, a unit without id
\* and heavyId as id 0
EquipmentUnits ==
    {<<>>}
      \cup {<<[id |-> i, haHour |-> h]>> : i \in {0, 7}, h \in HaHours}
      \cup {<<[id |-> 7, haHour |-> h1], [id |-> 8, haHour |-> h2]>> : h1, h2 \in HaHours}

NoEquipment == [available |-> 0, opDuration |-> 0, units |-> <<>>]

\* the two copies of TractorService in the repository
TractorServiceCopies == {"part_002", "TractorService.ts"}

\* task.complexityIndex of the field
ComplexityIndexes == {1, 2}

NoRequest ==
    [copy |-> "part_002", opType |-> "none", area |-> 0, complexityIndex |-> 1,
     maxTractors |-> 0, maxIdleTimeMinutes |-> 0,
     tractors |-> <<>>, implements |-> <<>>, pendingOps |-> <<>>, equipment |-> NoEquipment]

\* a result; found and beforeReserve are history: the usable units found and the
\* units selected before the idle reservation
Result(isNull, tractors, totalHaHour, estimatedDuration, found, beforeReserve) ==
    [done |-> TRUE, isNull |-> isNull, tractors |-> tractors, totalHaHour |-> totalHaHour,
     estimatedDuration |-> estimatedDuration, found |-> found, beforeReserve |-> beforeReserve]

NullResult(found) == Result(TRUE, <<>>, 0, 0, found, 0)

NoResult == [done |-> FALSE, isNull |-> TRUE, tractors |-> <<>>, totalHaHour |-> 0,
             estimatedDuration |-> 0, found |-> 0, beforeReserve |-> 0]

Unit(tractorId, implementId, haHour) ==
    [tractorId |-> tractorId, implementId |-> implementId, haHour |-> haHour]

\* list.filter(pred) for the two filters of the resolver
RECURSIVE AvailableTractors(_, _)
AvailableTractors(tractors, opType) ==
    IF tractors = <<>> THEN <<>>
    ELSE (IF Head(tractors).type = opType /\ ~Head(tractors).isPending
             /\ Head(tractors).hasImplement
          THEN <<Head(tractors)>> ELSE <<>>) \o AvailableTractors(Tail(tractors), opType)

RECURSIVE AvailableImplements(_, _)
AvailableImplements(implements, opType) ==
    IF implements = <<>> THEN <<>>
    ELSE (IF Head(implements).type = opType /\ Head(implements).available > 0
          THEN <<Head(implements)>> ELSE <<>>)
            \o AvailableImplements(Tail(implements), opType)

\* first, add tractors that already have the correct implement
RECURSIVE AddEquipped(_, _, _)
AddEquipped(available, usable, maxTractors) ==
    IF available = <<>> \/ Len(usable) >= maxTractors THEN usable
    ELSE AddEquipped(Tail(available),
                     Append(usable, Unit(Head(available).id, Head(available).implementId,
                                         Head(available).haHour)),
                     maxTractors)

\* a search that also accepts a tractor already in the list
FindCompatibleSelected(tractors, implement, usable) ==
    LET ok == {j \in 1 .. Len(tractors) :
                  /\ ~tractors[j].isPending
                  /\ tractors[j].hp >= implement.minHp}
    IN  IF ok = {} THEN 0 ELSE SetMin(ok)

\* response.tractors.find(...): the index of the first tractor that can take the
\* implement, 0 if there is none
FindCompatible(tractors, implement, usable) ==
    LET ok == {j \in 1 .. Len(tractors) :
                  /\ ~tractors[j].isPending
                  /\ tractors[j].hp >= implement.minHp
                  /\ ~\E u \in 1 .. Len(usable) : usable[u].tractorId = tractors[j].id}
    IN  IF ok = {} THEN 0 ELSE SetMin(ok)

\* then, try to attach available implements
RECURSIVE AutoAttach(_, _, _, _)
AutoAttach(implements, tractors, usable, maxTractors) ==
    IF implements = <<>> \/ Len(usable) >= maxTractors THEN usable
    ELSE LET j == FindCompatible(tractors, Head(implements), usable)
         IN  AutoAttach(Tail(implements), tractors,
                        IF j = 0 THEN usable
                        ELSE Append(usable, Unit(tractors[j].id, Head(implements).id,
                                                 Head(implements).haHour)),
                        maxTractors)

\* Array.prototype.sort((a, b) => b.haHour - a.haHour): stable, descending
RECURSIVE InsertByHaHour(_, _)
InsertByHaHour(sorted, u) ==
    IF sorted = <<>> THEN <<u>>
    ELSE IF Head(sorted).haHour >= u.haHour
         THEN <<Head(sorted)>> \o InsertByHaHour(Tail(sorted), u)
         ELSE <<u>> \o sorted

RECURSIVE SortByHaHour(_)
SortByHaHour(list) ==
    IF list = <<>> THEN <<>>
    ELSE InsertByHaHour(SortByHaHour(SubSeq(list, 1, Len(list) - 1)), list[Len(list)])

\* reduce((sum, t) => sum + t.haHour, 0)
RECURSIVE SumHaHour(_)
SumHaHour(list) == IF list = <<>> THEN 0 ELSE Head(list).haHour + SumHaHour(Tail(list))

\* list.slice(0, n) for n >= 0
Slice(list, n) == SubSeq(list, 1, IF n < Len(list) THEN n ELSE Len(list))

\* potentialIdleTime > maxIdleTimeMinutes * 60 for some pending operation, with
\* operationTimeSeconds = (area / totalHaHour) * 3600 (infinite when totalHaHour = 0)
LeavesIdle(tractorsToUse, pendingOps, area, maxIdleTimeMinutes) ==
    \E i \in 1 .. Len(pendingOps) :
        area * 3600 > (maxIdleTimeMinutes * 60 + pendingOps[i].opTimeRemain)
                            * SumHaHour(tractorsToUse)

\* an idle reservation that gives up a unit whatever the size of the selection
ReserveForPendingUnguarded(tractorsToUse, pendingOps, area, maxIdleTimeMinutes) ==
    IF Len(pendingOps) > 0 /\ Len(tractorsToUse) > 0
          /\ LeavesIdle(tractorsToUse, pendingOps, area, maxIdleTimeMinutes)
    THEN SubSeq(tractorsToUse, 1, Len(tractorsToUse) - 1)
    ELSE tractorsToUse

\* an idle reservation that goes on to the next pending operation after it has
\* given up a unit
ReserveForPendingEveryField(tractorsToUse, pendingOps, area, maxIdleTimeMinutes) ==
    LET total    == SumHaHour(tractorsToUse)
        exceeding == {i \in 1 .. Len(pendingOps) :
                         area * 3600 > (maxIdleTimeMinutes * 60 + pendingOps[i].opTimeRemain)
                                             * total}
        left     == Len(tractorsToUse) - Cardinality(exceeding)
    IN  IF Len(pendingOps) > 0 /\ Len(tractorsToUse) > 1
        THEN SubSeq(tractorsToUse, 1, IF left < 1 THEN 1 ELSE left)
        ELSE tractorsToUse

\* step 7: reserve one tractor for a pending field
ReserveForPending(tractorsToUse, pendingOps, area, maxIdleTimeMinutes) ==
    IF Len(pendingOps) > 0 /\ Len(tractorsToUse) > 1
          /\ LeavesIdle(tractorsToUse, pendingOps, area, maxIdleTimeMinutes)
    THEN SubSeq(tractorsToUse, 1, Len(tractorsToUse) - 1)
    ELSE tractorsToUse

\* Math.ceil((area / finalTotalHaHour) * 3600)
EstimatedDuration(area, finalTotalHaHour) ==
    IF finalTotalHaHour = 0 THEN Infinity
    ELSE (area * 3600 + finalTotalHaHour - 1) \div finalTotalHaHour

\* the area the copy divides by the throughput: src/src/services/TractorService.ts
\* takes area * complexityIndex, src/unnamed/part_002 the area
OperationArea(req) ==
    IF req.copy = "TractorService.ts" THEN req.area * req.complexityIndex ELSE req.area

\* TractorService.getEquipmentForFarmland for harvesting and clearing: the best
\* unit of details.equipment[opType], or null
getEquipmentForFarmland(equipment) ==
    IF equipment.available = 0 \/ equipment.units = <<>> THEN NullResult(0)
    ELSE LET units    == [j \in 1 .. Len(equipment.units) |->
                             Unit(equipment.units[j].id, 0, equipment.units[j].haHour)]
             bestUnit == SortByHaHour(units)[1]
         IN  IF bestUnit.tractorId = 0 THEN NullResult(0)
             ELSE Result(FALSE, <<bestUnit>>, bestUnit.haHour, equipment.opDuration, 1, 1)

\* usableTractors after steps 4 and 5: the equipped tractors, then the auto-attached
UsableTractors(req) ==
    AutoAttach(AvailableImplements(req.implements, req.opType), req.tractors,
               AddEquipped(AvailableTractors(req.tractors, req.opType), <<>>, req.maxTractors),
               req.maxTractors)

\* tractorsToUse before step 7: usableTractors sorted, cut to maxTractors
TractorsToUse(req) == Slice(SortByHaHour(UsableTractors(req)), req.maxTractors)

\* TractorService.getOptimalTractorsForOperation; threw: a request of the
\* resolution failed (the resolver catches it and returns null)
getOptimalTractorsForOperation(req, threw) ==
    IF threw THEN NullResult(0)
    ELSE IF req.opType \in {"harvesting", "clearing"}
    THEN getEquipmentForFarmland(req.equipment)
    ELSE IF req.tractors = <<>> THEN NullResult(0)
    ELSE LET usable   == UsableTractors(req)
             selected == TractorsToUse(req)
             final    == ReserveForPending(selected, req.pendingOps, OperationArea(req),
                                           req.maxIdleTimeMinutes)
         IN  IF usable = <<>> THEN NullResult(0)
             ELSE Result(FALSE, final, SumHaHour(final),
                         EstimatedDuration(OperationArea(req), SumHaHour(final)),
                         Len(usable), Len(selected))

\* the call settles
Resolve(threw) ==
    /\ ~optimal.done
    /\ optimal' = getOptimalTractorsForOperation(request, threw)
    /\ UNCHANGED request
    /\ UNCHANGED <<orchVars, farmVars, apiVars, supplyVars, authVars>>

ResolverIdle ==
    /\ request = NoRequest
    /\ optimal = NoResult

\* the calls of the resolver: an operation on a field, the account's limits and
\* what the remote answers
Requests ==
    UNION {[copy : TractorServiceCopies, opType : {op}, area : Areas,
            complexityIndex : ComplexityIndexes, maxTractors : 0 .. MaxUnits,
            maxIdleTimeMinutes : {DEFAULT_MAX_IDLE_MINUTES},
            tractors : TractorLists(op), implements : ImplementLists(op),
            pendingOps : PendingLists, equipment : {NoEquipment}] :
                op \in {"seeding", "plowing"}}
      \cup [copy : TractorServiceCopies, opType : {"harvesting", "clearing"}, area : Areas,
            complexityIndex : ComplexityIndexes, maxTractors : 0 .. MaxUnits,
            maxIdleTimeMinutes : {DEFAULT_MAX_IDLE_MINUTES},
            tractors : {<<>>}, implements : {<<>>}, pendingOps : PendingLists,
            equipment : [available : {0, 1}, opDuration : {0, 600}, units : EquipmentUnits]]

----------------------------------------------------------------------------
(* ApiClient: the remote session of an account (src/unnamed/part_010), and the
   dashboard's access to it (src/src/server.ts) *)

MaxTokens == 2      \* anti-replay tokens the remote issues per behaviour

ApiAccount == 1     \* the account whose sessions are modelled

\* session: the ApiClient of the account's FarmBot (session.bot.api);
\* debug: the entry of debugApiClients the dashboard creates for the account
Clients == {"session", "debug"}

\* ApiClient methods; startBatchAction and startHarvestAction append BT by hand
Endpoints == {"getHarvestTab", "getFarmlandDetails", "startBatchAction", "plowAction",
              "sellProduct"}

\* the ApiClient methods the dashboard routes call
DashboardEndpoints == {"getFarmlandDetails", "sellProduct"}

\* ApiClient.buildFormData: the BT parameter of the request (0: no BT parameter)
buildFormData(bt) == IF bt # 0 THEN bt ELSE 0

\* ApiClient.updateBT
updateBT(stored, responseBT) == IF responseBT # 0 THEN responseBT ELSE stored

\* currentBT after the method has received its response: getFarmlandDetails
\* returns response.data without calling updateBT
AfterResponse(endpoint, stored, responseBT) ==
    IF endpoint = "getFarmlandDetails" THEN stored ELSE updateBT(stored, responseBT)

\* server.ts getDebugApiClient(accountId): the client a dashboard route uses
getDebugApiClient(running, hasSession) ==
    IF running /\ hasSession THEN "session" ELSE "debug"

\* a request on the wire; latest is history: the token of the latest response the
\* client had received when the request was sent
ApiRequest(actor, client, endpoint) ==
    [actor |-> actor, client |-> client, endpoint |-> endpoint,
     BT |-> buildFormData(currentBT[client]), latest |-> latestBT[client]]

\* the account's cycle calls an ApiClient method; it awaits every call
CycleRequest(endpoint) ==
    /\ \E l \in BagToSet(loops) : l.pc = "cycle" /\ l.acct = ApiAccount /\ l.live
    /\ ~\E r \in inFlight : r.actor = "cycle"
    /\ inFlight' = inFlight \cup {ApiRequest("cycle", "session", endpoint)}
    /\ UNCHANGED <<currentBT, issuedBT, latestBT>>
    /\ UNCHANGED <<orchVars, farmVars, resolverVars, supplyVars, authVars>>

\* a dashboard route (for example POST /api/silo/sell/:cropId) calls an ApiClient
\* method on the client getDebugApiClient returns
DashboardRequest(endpoint) ==
    /\ ~\E r \in inFlight : r.actor = "dashboard"
    /\ LET client == getDebugApiClient(isRunning, sessions[ApiAccount].present)
       IN  inFlight' = inFlight \cup {ApiRequest("dashboard", client, endpoint)}
    /\ UNCHANGED <<currentBT, issuedBT, latestBT>>
    /\ UNCHANGED <<orchVars, farmVars, resolverVars, supplyVars, authVars>>

\* the response of request r arrives; fresh: it holds a new token
ApiResponse(r, fresh) ==
    /\ r \in inFlight
    /\ fresh => issuedBT < MaxTokens
    /\ LET responseBT == IF fresh THEN issuedBT + 1 ELSE 0
       IN /\ currentBT' = [currentBT EXCEPT
                              ![r.client] = AfterResponse(r.endpoint, @, responseBT)]
          /\ latestBT' = [latestBT EXCEPT ![r.client] = IF fresh THEN responseBT ELSE @]
          /\ issuedBT' = IF fresh THEN issuedBT + 1 ELSE issuedBT
    /\ inFlight' = inFlight \ {r}
    /\ UNCHANGED <<orchVars, farmVars, resolverVars, supplyVars, authVars>>

\* new ApiClient(sessionId, logger): no token, nothing on the wire
ApiIdle ==
    /\ currentBT = [c \in Clients |-> 0]
    /\ inFlight = {}
    /\ issuedBT = 0
    /\ latestBT = [c \in Clients |-> 0]

----------------------------------------------------------------------------
(* SeedService (src/src/services/SeedService.ts) and the per-field crop
   overrides the dashboard persists (src/src/server.ts) *)

Farmlands == {11, 12}       \* farmland ids of the account
CropIds   == {1, 2}
Scores    == {40, 90}       \* crop-suitability scores
SeedAreas == {5}            \* task.area, in tenths of a hectare
SeedStocks == {0, 2, 10}    \* kg of the selected seed in stock
ForcedNames == {"", "wheat", "corn"}   \* config.forceSeedName ("": not set)
BuyOutcomes == {"success", "failed", "threw"}

Undefined == 0 - 2          \* an argument the caller did not pass

\* the key of a crop in farmlandData.cropScores
CropName(id) == IF id = 1 THEN "wheat" ELSE "corn"

\* MarketSeed.kgPerHa of the crops
KgPerHa(id) == IF id = 1 THEN 3 ELSE 5

\* an entry of Object.entries(cropScores).map(([name, data]) => ({ name, ...data }))
CropScore(id, score) == [name |-> CropName(id), id |-> id, score |-> score]

\* farmlandData.cropScores in insertion order
CropScoreLists ==
    {<<>>}
    \cup {<<CropScore(i, s)>> : i \in CropIds, s \in Scores}
    \cup {<<CropScore(i, s), CropScore(j, t)>> :
            <<i, j>> \in {p \in CropIds \X CropIds : p[1] # p[2]}, <<s, t>> \in Scores \X Scores}

MarketSeed(id, unlocked, canAfford) ==
    [id |-> id, kgPerHa |-> KgPerHa(id), unlocked |-> unlocked, canAfford |-> canAfford]

\* a market seed is locked, unaffordable, or unlocked and affordable
MarketFlags == {<<0, 1>>, <<1, 0>>, <<1, 1>>}

\* marketData.seed
MarketLists ==
    {<<>>}
    \cup {<<MarketSeed(i, f[1], f[2])>> : i \in CropIds, f \in MarketFlags}
    \cup {<<MarketSeed(1, f[1], f[2]), MarketSeed(2, g[1], g[2])>> : f \in MarketFlags, g \in MarketFlags}

\* the arguments of prepareForSeeding and what the remote holds; missing names
\* the response that came without its data
SeedRequests ==
    [farmlandId : {11}, area : SeedAreas, forceSeedName : ForcedNames,
     cropScores : CropScoreLists, marketSeeds : MarketLists, stock : SeedStocks,
     missing : {"none"}]
    \cup [farmlandId : {11}, area : SeedAreas, forceSeedName : {""},
          cropScores : {<<>>}, marketSeeds : {<<>>}, stock : SeedStocks,
          missing : {"cropScores", "seed"}]

NoSeedRequest ==
    [farmlandId |-> Null, area |-> 0, forceSeedName |-> "", cropScores |-> <<>>,
     marketSeeds |-> <<>>, stock |-> 0, missing |-> "none"]

\* what the remote answered during one prepareForSeeding
NoSeedReply == [threw1 |-> FALSE, threw2 |-> FALSE, buy |-> "none"]

\* the account's farm data: farmland id -> configuredCropId
NoOverrides == [f \in Farmlands |-> Null]

\* getAccountFarmData(accountId): the stored data of the account, or empty
\* data for a key that is no account
getAccountFarmData(data, accountId) ==
    IF accountId = ApiAccount THEN data ELSE [f \in {} |-> Null]

\* getConfiguredCropForFarmland(accountId, farmlandId)
getConfiguredCropForFarmland(data, accountId, farmlandId) ==
    LET fields == getAccountFarmData(data, accountId)
        hits == {f \in DOMAIN fields : f = farmlandId /\ fields[f] # Null /\ fields[f] # 0}
    IN  IF hits = {} THEN Null ELSE fields[SetMin(hits)]

\* the Map of the market seeds with unlocked === 1 && canAfford === 1
unlockedSeeds(marketSeeds) ==
    {marketSeeds[i] : i \in {j \in DOMAIN marketSeeds :
                              marketSeeds[j].unlocked = 1 /\ marketSeeds[j].canAfford = 1}}

\* sort((a, b) => b.score - a.score), a stable sort
RECURSIVE InsertByScore(_, _)
InsertByScore(sorted, c) ==
    IF sorted = <<>> THEN <<c>>
    ELSE IF Head(sorted).score >= c.score
         THEN <<Head(sorted)>> \o InsertByScore(Tail(sorted), c)
         ELSE <<c>> \o sorted

\* a selection that takes the suitability list as it comes
sortedScoresUnsorted(cropScores) == cropScores

RECURSIVE sortedScores(_)
sortedScores(cropScores) ==
    IF cropScores = <<>> THEN <<>>
    ELSE InsertByScore(sortedScores(SubSeq(cropScores, 1, Len(cropScores) - 1)),
                       cropScores[Len(cropScores)])

\* Math.ceil(area * kgPerHa), area in tenths of a hectare
requiredAmount(area, kgPerHa) == (area * kgPerHa + 9) \div 10

\* a purchase of the whole amount, whatever is in stock
needToBuyAll(required, currentStock) == required

\* Math.max(0, requiredAmount - currentStock)
needToBuy(required, currentStock) ==
    IF required - currentStock > 0 THEN required - currentStock ELSE 0

\* getSeedStock: the amount of the seeding tab, 0 when the request throws
getSeedStock(amount, threw) == IF threw THEN 0 ELSE amount

NullSeed == [cropId |-> Null, cropName |-> "", score |-> 0, kgPerHa |-> 0,
             requiredAmount |-> 0, currentStock |-> 0, needToBuy |-> 0]

BestSeedResult(crop, marketSeed, area, currentStock) ==
    [cropId |-> crop.id, cropName |-> crop.name, score |-> crop.score,
     kgPerHa |-> marketSeed.kgPerHa,
     requiredAmount |-> requiredAmount(area, marketSeed.kgPerHa),
     currentStock |-> currentStock,
     needToBuy |-> needToBuy(requiredAmount(area, marketSeed.kgPerHa), currentStock)]

\* a selection that gives up when the configured crop cannot be used
selectSeedNoFallback(configuredCropId, req, currentStock) ==
    LET unlocked == unlockedSeeds(req.marketSeeds)
        sorted == sortedScores(req.cropScores)
        marketSeed(i) == {s \in unlocked : s.id = sorted[i].id}
        configured == {i \in DOMAIN sorted :
                         sorted[i].id = configuredCropId /\ marketSeed(i) # {}}
        forced == {i \in DOMAIN sorted :
                         sorted[i].name = req.forceSeedName /\ marketSeed(i) # {}}
        auto == {i \in DOMAIN sorted : marketSeed(i) # {}}
        found(S) == BestSeedResult(sorted[SetMin(S)],
                                   CHOOSE s \in marketSeed(SetMin(S)) : TRUE,
                                   req.area, currentStock)
    IN  IF req.missing # "none" THEN NullSeed
        ELSE IF configuredCropId # Null /\ configuredCropId # 0
             THEN (IF configured # {} THEN found(configured) ELSE NullSeed)
        ELSE IF req.forceSeedName # ""
             THEN (IF forced # {} THEN found(forced) ELSE NullSeed)
        ELSE IF auto # {} THEN found(auto) ELSE NullSeed

\* getBestSeedForFarmland from step 2 on: the selection, given the configured
\* crop id it has read (Null: none); currentStock is what getSeedStock returns
\* for the crop it settles on
selectSeed(configuredCropId, req, currentStock) ==
    LET unlocked == unlockedSeeds(req.marketSeeds)
        sorted == sortedScores(req.cropScores)
        marketSeed(i) == {s \in unlocked : s.id = sorted[i].id}
        configured == {i \in DOMAIN sorted :
                         sorted[i].id = configuredCropId /\ marketSeed(i) # {}}
        forced == {i \in DOMAIN sorted :
                         sorted[i].name = req.forceSeedName /\ marketSeed(i) # {}}
        auto == {i \in DOMAIN sorted : marketSeed(i) # {}}
        found(S) == BestSeedResult(sorted[SetMin(S)],
                                   CHOOSE s \in marketSeed(SetMin(S)) : TRUE,
                                   req.area, currentStock)
    IN  IF req.missing # "none" THEN NullSeed
        ELSE IF configuredCropId # Null /\ configuredCropId # 0 /\ configured # {}
             THEN found(configured)
        ELSE IF req.forceSeedName # ""
             THEN (IF forced # {} THEN found(forced) ELSE NullSeed)
        ELSE IF auto # {} THEN found(auto) ELSE NullSeed

\* a selection that falls back to the best available crop when the forced name
\* matches nothing
getBestSeedForFarmlandFallback(data, req, currentStock) ==
    LET forcedResult == selectSeed(getConfiguredCropForFarmland(data, req.farmlandId, Undefined),
                                   req, currentStock)
    IN  IF forcedResult = NullSeed
        THEN selectSeed(Null, [req EXCEPT !.forceSeedName = ""], currentStock)
        ELSE forcedResult

\* getBestSeedForFarmland(farmlandId, area, forceSeedName), called on the farm
\* data: the configured crop id is read with the farmland id as the only argument
getBestSeedForFarmland(data, req, currentStock) ==
    selectSeed(getConfiguredCropForFarmland(data, req.farmlandId, Undefined),
               req, currentStock)

\* ensureSeedAvailable(cropId, requiredAmount): whether the seed is there, and
\* the amount handed to buySeeds (0: no purchase)
ensureSeedAvailable(required, currentStock, buy) ==
    IF needToBuy(required, currentStock) = 0
    THEN [purchased |-> TRUE, order |-> 0]
    ELSE [purchased |-> buy = "success", order |-> needToBuy(required, currentStock)]

\* prepareForSeeding: the seed returned (NullSeed: null) and the purchase made
prepareForSeeding(data, req, reply) ==
    LET best == getBestSeedForFarmland(data, req, getSeedStock(req.stock, reply.threw1))
        ensured == ensureSeedAvailable(best.requiredAmount,
                                       getSeedStock(req.stock, reply.threw2), reply.buy)
    IN  IF best.cropId = Null THEN [seed |-> NullSeed, order |-> 0]
        ELSE IF best.needToBuy > 0
             THEN [seed |-> IF ensured.purchased THEN best ELSE NullSeed,
                   order |-> ensured.order]
        ELSE [seed |-> best, order |-> 0]

\* PUT /api/farmland/:farmlandId/config: the dashboard sets or clears the
\* override of a field of the account
SetFarmlandConfig(farmlandId, cropId) ==
    /\ farmlandId \in DOMAIN farmData
    /\ farmData' = [farmData EXCEPT ![farmlandId] = cropId]
    /\ UNCHANGED <<seedRequest, seedReply, bestSeed, prepared, fuelVars>>
    /\ UNCHANGED <<orchVars, farmVars, resolverVars, apiVars, authVars>>

\* SeedService.prepareForSeeding(task.farmlandId, task.area, config.forceSeedName)
PrepareForSeeding(threw1, threw2, buy) ==
    /\ seedRequest # NoSeedRequest
    /\ LET reply == [threw1 |-> threw1, threw2 |-> threw2, buy |-> buy]
       IN  /\ seedReply' = reply
           /\ bestSeed' = getBestSeedForFarmland(farmData, seedRequest,
                                                 getSeedStock(seedRequest.stock, threw1))
           /\ prepared' = prepareForSeeding(farmData, seedRequest, reply)
    /\ UNCHANGED <<farmData, seedRequest, fuelVars>>
    /\ UNCHANGED <<orchVars, farmVars, resolverVars, apiVars, authVars>>

NoPrepared == [seed |-> NullSeed, order |-> Null]

----------------------------------------------------------------------------
(* FuelService (src/unnamed/part_008) *)

FUEL_MIN_LEVEL == 1000
FUEL_PRICE_THRESHOLD == 1000
FUEL_TARGET_LEVEL == 2000

FuelLevels == {0, 999, 1000, 1500, 2500}    \* fuelSilo.siloHolding (L)
FuelPrices == {500, 999, 1000, 1500}         \* fuelCost
FuelCapacities == {0 - 100, 0, 300, 1001, 5000}  \* fuelSilo.remainingCapacity (L)

FuelStatus(level, price, remaining) ==
    [siloHolding |-> level, fuelCost |-> price, remainingCapacity |-> remaining]

NoFuelStatus == FuelStatus(Null, Null, Null)

MinOf(a, b) == IF a <= b THEN a ELSE b

\* the refuel decision keeps buying the deficit to the target when the tank is full
amountToBuyUncapped(status) ==
    IF status.siloHolding < FUEL_MIN_LEVEL
    THEN FUEL_TARGET_LEVEL - status.siloHolding
    ELSE IF status.fuelCost < FUEL_PRICE_THRESHOLD /\ status.remainingCapacity > 0
         THEN status.remainingCapacity
         ELSE 0

\* checkAndBuyFuel: the amount handed to buyFuel (0: no purchase attempted)
amountToBuy(status) ==
    LET shouldBuy == \/ status.siloHolding < FUEL_MIN_LEVEL
                     \/ /\ status.fuelCost < FUEL_PRICE_THRESHOLD
                        /\ status.remainingCapacity > 0
        amount == IF status.siloHolding < FUEL_MIN_LEVEL
                  THEN MinOf(FUEL_TARGET_LEVEL - status.siloHolding, status.remainingCapacity)
                  ELSE status.remainingCapacity
    IN  IF ~shouldBuy THEN 0
        ELSE IF amount <= 0 THEN 0
        ELSE amount

\* FuelService.checkAndBuyFuel(): the order placed and the value returned
CheckFuel(level, price, remaining, buy) ==
    /\ fuelStatus' = FuelStatus(level, price, remaining)
    /\ fuelOrder' = [amount |-> amountToBuy(FuelStatus(level, price, remaining)),
                     bought |-> /\ amountToBuy(FuelStatus(level, price, remaining)) > 0
                                /\ buy = "success"]
    /\ UNCHANGED seedVars
    /\ UNCHANGED <<orchVars, farmVars, resolverVars, apiVars, authVars>>

NoFuelOrder == [amount |-> 0, bought |-> FALSE]

\* no seeding prepared, no override stored, no fuel checked
SupplyIdle ==
    /\ farmData = NoOverrides
    /\ seedRequest = NoSeedRequest
    /\ seedReply = NoSeedReply
    /\ bestSeed = NullSeed
    /\ prepared = NoPrepared
    /\ fuelStatus = NoFuelStatus
    /\ fuelOrder = NoFuelOrder

----------------------------------------------------------------------------
(* Authentication of an account (BotOrchestrator.authenticateAccount in
   src/unnamed/part_011, AuthService in src/unnamed/part_000,
   ConfigManager.updateAccount in src/unnamed/part_004) *)

MaxGuests == 3      \* guest identities the remote creates per behaviour

\* account.auth: the authentication method and the stored access token (0: none)
AccountAuth(type, androidToken) == [type |-> type, androidToken |-> androidToken]

\* an authenticateAccount call: pc is the request it awaits ("idle": none in
\* flight), accessToken the token it holds, result what the last call returned
\* ("none": no call yet, "null", or "config": a BotConfig)
AuthCall(pc, accessToken, result) == [pc |-> pc, accessToken |-> accessToken, result |-> result]

\* the guest identities the remote has created so far
RECURSIVE TotalGuests(_, _)
TotalGuests(created, S) ==
    IF S = {} THEN 0
    ELSE LET a == SetMin(S) IN created[a] + TotalGuests(created, S \ {a})

\* ConfigManager.updateAccount(account.id, { auth: { ...auth, type:
\* 'androidToken', androidToken: result.accessToken } }), which authenticateAccount
\* calls after registerGuestAndLogin has returned: the account's auth after the
\* step of the call that was at pc
updateAccount(auth, pc, accessToken) ==
    IF pc = "login" THEN AccountAuth("androidToken", accessToken) ELSE auth

\* start() reaches authenticateAccount(account): switch (auth.type)
AuthenticateAccount(a) ==
    /\ authCalls[a].pc = "idle"
    /\ accountAuth[a].type = "guest"
          => TotalGuests(guestIdentities, Accounts) < MaxGuests
    /\ authCalls' = [authCalls EXCEPT ![a] =
                        IF accountAuth[a].type = "guest"
                        THEN AuthCall("register", 0, @.result)
                        ELSE AuthCall("tokenLogin", accountAuth[a].androidToken, @.result)]
    /\ UNCHANGED <<accountAuth, guestIdentities>>
    /\ UNCHANGED <<orchVars, farmVars, resolverVars, apiVars, supplyVars>>

\* AuthService.registerGuestAndLogin, step 1: the POST to the auth endpoint
\* settles.  created: the remote has created a guest identity and answers with
\* its access token; otherwise the request failed and the call returns null
RegisterGuest(a, created) ==
    /\ authCalls[a].pc = "register"
    /\ IF created
       THEN LET accessToken == TotalGuests(guestIdentities, Accounts) + 1
            IN  /\ guestIdentities' = [guestIdentities EXCEPT ![a] = @ + 1]
                /\ authCalls' = [authCalls EXCEPT ![a] = AuthCall("login", accessToken, @.result)]
                /\ UNCHANGED accountAuth
       ELSE /\ authCalls' = [authCalls EXCEPT ![a] = AuthCall("idle", 0, "null")]
            /\ UNCHANGED <<accountAuth, guestIdentities>>
    /\ UNCHANGED <<orchVars, farmVars, resolverVars, apiVars, supplyVars>>

\* AuthService.loginWithAndroidToken settles, called by registerGuestAndLogin
\* (step 2) or for an account of type androidToken.  ok: the remote answered
\* with a session cookie; otherwise it throws, registerGuestAndLogin rethrows,
\* and authenticateAccount catches the error and returns null
LoginWithAndroidToken(a, ok) ==
    /\ authCalls[a].pc \in {"login", "tokenLogin"}
    /\ IF ok
       THEN /\ accountAuth' = [accountAuth EXCEPT ![a] =
                                  updateAccount(@, authCalls[a].pc, authCalls[a].accessToken)]
            /\ authCalls' = [authCalls EXCEPT ![a] = AuthCall("idle", 0, "config")]
       ELSE /\ authCalls' = [authCalls EXCEPT ![a] = AuthCall("idle", 0, "null")]
            /\ UNCHANGED accountAuth
    /\ UNCHANGED guestIdentities
    /\ UNCHANGED <<orchVars, farmVars, resolverVars, apiVars, supplyVars>>

\* accounts created with the guest method, never authenticated
AuthIdle ==
    /\ accountAuth = [a \in Accounts |-> AccountAuth("guest", 0)]
    /\ authCalls = [a \in Accounts |-> AuthCall("idle", 0, "none")]
    /\ guestIdentities = [a \in Accounts |-> 0]

----------------------------------------------------------------------------
(* Specifications *)

\* the orchestrator after construction
OrchestratorIdle ==
    /\ isRunning = FALSE
    /\ sessions = [a \in Accounts |-> NoSession]
    /\ mapData = <<>>
    /\ totalCycles = 0
    /\ mainLoopTimeout = "null"
    /\ loops = EmptyBag
    /\ starts = [i \in 1 .. Len(AccountList) |-> 0]
    /\ startCount = 0
    /\ startsIgnored = 0

\* the orchestrator: start, stop, authentication, the poll loop and the cycles
\* of two accounts
Init ==
    /\ now = StartTime
    /\ enabled \in {[a \in Accounts |-> TRUE], [a \in Accounts |-> a = 1],
                    [a \in Accounts |-> FALSE]}
    /\ OrchestratorIdle
    /\ FarmIdle
    /\ ResolverIdle
    /\ ApiIdle
    /\ SupplyIdle
    /\ AuthIdle

Next ==
    \/ Tick
    \/ Start
    \/ \E i \in 1 .. Len(AccountList), ok \in BOOLEAN : AuthResolve(i, ok)
    \/ \E l \in BagToSet(loops), byHandle \in BOOLEAN : TimerFire(l, byHandle)
    \/ \E l \in BagToSet(loops), threw \in BOOLEAN, k \in 0 .. (RandDenom - 1) :
            FinishCycle(l, threw, k)
    \/ Stop

Spec == Init /\ [][Next]_vars

\* one account's bot: its cycles over time, with restarts of the orchestrator
InitCycle ==
    /\ now = CycleTime
    /\ enabled = [a \in Accounts |-> TRUE]
    /\ OrchestratorIdle
    /\ farmBot \in [copy : FarmBotCopies, disableMaxTaskDuration : BOOLEAN]
    /\ harvestCache = NewHarvestCache
    /\ cycle = IdleCycle
    /\ lastTask = NoTask
    /\ lastHarvest = [f \in Fields |-> Null]
    /\ attempted = NoAttempts(FALSE)
    /\ snapshot = <<>>
    /\ taskType = "none"
    /\ extracted = <<>>
    /\ ResolverIdle
    /\ ApiIdle
    /\ SupplyIdle
    /\ AuthIdle

NextCycle ==
    \/ Wait
    \/ \E disableMaxTaskDuration \in BOOLEAN : NewFarmBot(disableMaxTaskDuration)
    \/ RunCycle
    \/ \E threw \in BOOLEAN : CheckAndBuyFuel(threw)
    \/ \E farms \in HarvestSnapshots, threw \in BOOLEAN : GetHarvestingTasks(farms, threw)
    \/ \E farms \in TabSnapshots, threw \in BOOLEAN : GetTabTasks(farms, threw)
    \/ \E prep \in {"seed", "null", "throws"}, resolved \in BOOLEAN,
          estimatedDuration \in Durations, response \in {"success", "failed", "throws"} :
            ExecuteTask(prep, resolved, estimatedDuration, response)
    \/ CheckAndSellProducts

SpecCycle == InitCycle /\ [][NextCycle]_vars

\* the task normalizer applied to one tab response
InitExtract ==
    /\ now = CycleTime
    /\ enabled = [a \in Accounts |-> TRUE]
    /\ OrchestratorIdle
    /\ farmBot = [copy |-> "FuelService.ts", disableMaxTaskDuration |-> FALSE]
    /\ cycle = IdleCycle
    /\ lastTask = NoTask
    /\ lastHarvest = [f \in Fields |-> Null]
    /\ attempted = NoAttempts(FALSE)
    /\ extracted = <<>>
    /\ \/ /\ taskType \in {"cultivating", "seeding", "fertilizing"}
          /\ snapshot \in TabSnapshots
          /\ harvestCache = NewHarvestCache
       \/ /\ taskType = "harvesting"
          /\ snapshot \in HarvestSnapshots
          /\ harvestCache \in [Fields -> {0, now - MIN_HARVEST_INTERVAL_MS,
                                           now - MIN_HARVEST_INTERVAL_MS + 1, now + 1}]
    /\ ResolverIdle
    /\ ApiIdle
    /\ SupplyIdle
    /\ AuthIdle

NextExtract == ExtractTasks \/ ExtractHarvest

SpecExtract == InitExtract /\ [][NextExtract]_vars

----------------------------------------------------------------------------
(* Claims about the orchestrator *)

\* the number of cycles in flight for account a
CyclesInFlight(a) ==
    LET S == {l \in BagToSet(loops) : l.pc = "cycle" /\ l.acct = a}
    IN  IF S = {} THEN 0
        ELSE IF Cardinality(S) = 1 THEN CopiesIn(CHOOSE l \in S : TRUE, loops)
        ELSE 2

\* C2: at any moment at most one cycle is executing for a given account
C2_OneCyclePerAccount == \A a \in Accounts : CyclesInFlight(a) <= 1

\* C4: when an account's cycle fails, the scheduler sets the next run to now plus
\* the fixed retry interval and records the failure message in the status error
\* field of the account
C4_FailedCycleRetries ==
    [][\A l \in BagToSet(loops), k \in 0 .. (RandDenom - 1) :
          (FinishCycle(l, TRUE, k) /\ l.live)
              => /\ sessions'[l.acct].error = "message"
                 /\ sessions'[l.acct].nextCycle = now + RETRY_INTERVAL_MS]_vars

\* C6: with night-pause enabled, no next-run timestamp of the account falls inside
\* the blackout window
C6_NightPauseContainment ==
    \A a \in Accounts :
        (sessions[a].present /\ Settings(a).pauseAtNight) => ~InBlackout(sessions[a].nextCycle)

\* a step computes a next-run timestamp for account a
Scheduled(a) == sessions'[a].present /\ sessions'[a] # sessions[a]

\* C7 (as stated): every next-run timestamp the scheduler computes lies between
\* now + minIntervalMs and now + maxIntervalMs
C7_EveryNextRunInBounds ==
    [][\A a \in Accounts :
          Scheduled(a)
              => /\ Settings(a).checkIntervalMinMs <= sessions'[a].nextCycle - now'
                 /\ sessions'[a].nextCycle - now' <= Settings(a).checkIntervalMaxMs]_vars

\* C7 (amended): the next-run timestamp computed when a cycle completes lies
\* between now + minIntervalMs and now + maxIntervalMs if minIntervalMs <=
\* maxIntervalMs; the first next-run, set at authentication, is now itself
C7_NextRunInBoundsAfterCycle ==
    [][\A a \in Accounts :
          Scheduled(a)
              => IF sessions'[a].lastCycle = Null
                 THEN sessions'[a].nextCycle = now'
                 ELSE Settings(a).checkIntervalMinMs <= Settings(a).checkIntervalMaxMs
                        => /\ Settings(a).checkIntervalMinMs <= sessions'[a].nextCycle - now'
                           /\ sessions'[a].nextCycle - now' <= Settings(a).checkIntervalMaxMs]_vars

\* C7 witness: a completed cycle of account 1 was followed by the longest interval
C7_Witness ==
    /\ sessions[1].present
    /\ sessions[1].lastCycle # Null
    /\ sessions[1].nextCycle = sessions[1].lastCycle + Settings(1).checkIntervalMaxMs

\* the resolver applied to one request
InitResolve ==
    /\ now = CycleTime
    /\ enabled = [a \in Accounts |-> TRUE]
    /\ OrchestratorIdle
    /\ FarmIdle
    /\ request \in Requests
    /\ optimal = NoResult
    /\ ApiIdle
    /\ SupplyIdle
    /\ AuthIdle

NextResolve == \E threw \in BOOLEAN : Resolve(threw)

SpecResolve == InitResolve /\ [][NextResolve]_vars

----------------------------------------------------------------------------
(* Claims about the bot cycle *)

\* C1: within one process run, which may contain several orchestrator start/stop
\* episodes, no two successful harvest submissions of the same field are less
\* than 6 hours apart
C1_HarvestCooldown ==
    [][\A f \in Fields :
          (harvestCache'[f] # harvestCache[f] /\ harvestCache'[f] # 0 /\ lastHarvest[f] # Null)
              => harvestCache'[f] - lastHarvest[f] >= MIN_HARVEST_INTERVAL_MS]_vars

\* C3: a failure of one task (a non-zero failed counter, or a throwing resolution,
\* purchase or submission) never aborts the cycle: the loop goes on with the
\* remaining tasks of the pass and with the later passes
C3_TaskFailureNeverAborts ==
    [][(cycle.tasks # <<>> /\ cycle' # cycle)
          => cycle' = Advance([cycle EXCEPT !.tasks = Tail(@)])]_vars

\* C5: with resolved equipment, the remote submission endpoint is never called
\* when the estimated duration exceeds 6 hours and the override flag is false,
\* and is always called when the override flag is true
C5_DurationCap ==
    lastTask.resolved
        => /\ (lastTask.estimatedDuration > MAX_OPERATION_SECONDS
                    /\ ~lastTask.disableMaxTaskDuration) => ~lastTask.called
           /\ lastTask.disableMaxTaskDuration => lastTask.called

----------------------------------------------------------------------------
(* Claims about the task normalizer *)

----------------------------------------------------------------------------
(* Claims about the equipment resolver *)

\* C8: the resolver never returns a non-empty unit list whose total throughput
\* is zero or negative, and never returns more than maxUnits units
C8_PositiveThroughputWithinMax ==
    (optimal.done /\ ~optimal.isNull /\ Len(optimal.tractors) > 0)
        => /\ optimal.totalHaHour > 0
           /\ Len(optimal.tractors) <= request.maxTractors

\* C9: an idle reservation that reduces the selection leaves at least one unit,
\* and the resolver never returns an empty unit list once a unit was found
C9_ReservationKeepsOne ==
    optimal.done
        => /\ optimal.found >= 1 => (~optimal.isNull /\ Len(optimal.tractors) >= 1)
           /\ (~optimal.isNull /\ Len(optimal.tractors) < optimal.beforeReserve)
                  => Len(optimal.tractors) >= 1

\* C9 witness: the idle reservation reduced a selection of two units to one
C9_Witness ==
    /\ optimal.done
    /\ ~optimal.isNull
    /\ Len(request.pendingOps) > 0
    /\ optimal.beforeReserve = 2
    /\ Len(optimal.tractors) = 1

\* the eligible already-equipped units of the request, in snapshot order
EligibleEquipped ==
    LET available == AvailableTractors(request.tractors, request.opType)
    IN  [j \in 1 .. Len(available) |->
            Unit(available[j].id, available[j].implementId, available[j].haHour)]

\* C11: for seeding and plowing, the selected already-equipped units are the
\* first maxUnits of the eligible equipped units sorted by throughput descending
\* (ties in snapshot order), i.e. the maxUnits fastest ones
C11_FastestEquippedSelected ==
    (/\ optimal.done
     /\ ~optimal.isNull
     /\ request.opType \in {"seeding", "plowing"}
     /\ Len(optimal.tractors) = optimal.beforeReserve)
        => SelectSeq(optimal.tractors,
                     LAMBDA u : \E j \in 1 .. Len(EligibleEquipped) : EligibleEquipped[j] = u)
             = Slice(SortByHaHour(EligibleEquipped), request.maxTractors)

----------------------------------------------------------------------------
(* Claims about the orchestrator: accounts and sessions *)

\* account b is overdue and not running, and all the scheduler holds is the loop
\* body that awaits the cycle of account a: b starts only after a's cycle settles
BlockedBehind(a, b) ==
    /\ a # b
    /\ isRunning
    /\ sessions[b].present
    /\ sessions[b].nextCycle < now
    /\ CyclesInFlight(b) = 0
    /\ CyclesInFlight(a) > 0
    /\ \A l \in BagToSet(loops) : l.pc = "cycle" /\ l.acct = a
    /\ \A i \in 1 .. Len(AccountList) : starts[i] = 0

\* C12: accounts never block each other: the start of a due account's cycle is
\* never delayed by the cycle of another account that is still running (for
\* example stalled on a hung request)
C12_AccountsNeverBlock == \A a, b \in Accounts : ~BlockedBehind(a, b)

----------------------------------------------------------------------------
(* The ApiClient specification and its claims *)

\* the orchestrator after start() with account 1 enabled and authenticated:
\* runMainLoop awaits the first cycle of the account
OrchestratorCycling ==
    /\ isRunning = TRUE
    /\ sessions = [a \in Accounts |-> IF a = ApiAccount THEN NewSession(now) ELSE NoSession]
    /\ mapData = <<ApiAccount>>
    /\ totalCycles = 0
    /\ mainLoopTimeout = "null"
    /\ loops = SetToBag({CycleLoop(now, 1, ApiAccount, TRUE)})
    /\ starts = [i \in 1 .. Len(AccountList) |-> 0]
    /\ startCount = 1
    /\ startsIgnored = 0

\* the requests of one account: its cycle and the dashboard, with the
\* orchestrator stopped or running the account's cycle
InitApi ==
    /\ now = StartTime
    /\ enabled = [a \in Accounts |-> a = ApiAccount]
    /\ OrchestratorIdle \/ OrchestratorCycling
    /\ FarmIdle
    /\ ResolverIdle
    /\ ApiIdle
    /\ SupplyIdle
    /\ AuthIdle

NextApi ==
    \/ \E endpoint \in Endpoints : CycleRequest(endpoint)
    \/ \E endpoint \in DashboardEndpoints : DashboardRequest(endpoint)
    \/ \E r \in inFlight, fresh \in BOOLEAN : ApiResponse(r, fresh)

SpecApi == InitApi /\ [][NextApi]_vars

\* C13: while the account is in the running set, its Session is used only by
\* the account's running cycle: no request of another actor (another account's
\* cycle, a dashboard request) goes through it or changes its token
C13_SessionExclusive ==
    \A r \in inFlight :
        (r.client = "session" /\ isRunning /\ sessions[ApiAccount].present)
            => r.actor = "cycle"

\* C14: every request carries the token of the most recent response received,
\* and every response updates the stored token, for every remote endpoint
C14_TokenThreaded ==
    /\ \A c \in Clients : currentBT[c] = latestBT[c]
    /\ \A r \in inFlight : r.BT = r.latest

----------------------------------------------------------------------------
(* Claims about stopping and starting the orchestrator *)

\* the number of loop chains of B that are at pc
LoopCount(B, pc) ==
    LET S == {l \in BagToSet(B) : l.pc = pc}
    IN  BagCardinality([l \in S |-> CopiesIn(l, B)])

\* what the chains of B have started: the cycle of an account, or a poll timer
StartedBy(B) == BagOfAll(LAMBDA l : [pc |-> l.pc, due |-> l.due, acct |-> l.acct], B)

\* C15: after stop is called and until a later start, no step starts a cycle for
\* any account or arms a poll timer, while stop itself leaves the cycles in
\* flight running
C15_StopStartsNothing ==
    [][/\ ~isRunning' => StartedBy(loops') \sqsubseteq StartedBy(loops)
       /\ Stop => LoopCount(loops', "cycle") = LoopCount(loops, "cycle")]_vars

\* C15 witness: the orchestrator was stopped while a cycle was in flight
C15_Witness ==
    /\ ~isRunning
    /\ startCount >= 1
    /\ \A a \in Accounts : ~sessions[a].present
    /\ mainLoopTimeout = "null"
    /\ LoopCount(loops, "cycle") >= 1

\* BotOrchestrator.getStatus(): per configured account, what the dashboard shows
getStatus(ss, running, total) ==
    [running     |-> running,
     totalCycles |-> total,
     accounts    |-> [a \in Accounts |->
                        [enabled       |-> enabled[a],
                         authenticated |-> ss[a].present,
                         lastCycleTime |-> ss[a].lastCycle,
                         nextCycleTime |-> ss[a].nextCycle,
                         cycleCount    |-> ss[a].cycleCount,
                         error         |-> ss[a].error]]]

\* C16: on start, an enabled account whose authentication fails is left out of
\* the running set and shown as not authenticated in status, while an enabled
\* account that authenticates is in the running set, scheduled to run at once
C16_FailedAuthExcluded ==
    [][\A i \in 1 .. Len(AccountList) :
          LET a == FilterEnabled(AccountList, enabled)[i]
          IN  /\ AuthResolve(i, FALSE)
                    => /\ ~sessions'[a].present
                       /\ ~getStatus(sessions', isRunning', totalCycles').accounts[a].authenticated
              /\ AuthResolve(i, TRUE)
                    => /\ sessions'[a] = NewSession(now)
                       /\ getStatus(sessions', isRunning', totalCycles').accounts[a].authenticated]_vars

----------------------------------------------------------------------------
(* Claims about the passes of a cycle *)

\* the tab responses of an account whose fields all lie in its first farm
OneFarmHarvestSnapshots ==
    UNION {{HarvestSnapshot(place, blocked) : blocked \in SUBSET HarvestOccupied(place)} :
                place \in [Fields -> {p \in HarvestPlacements : p.farmId <= 1}]}

OneFarmTabSnapshots ==
    UNION {{TabSnapshot(place, blocked) : blocked \in SUBSET Occupied(place)} :
                place \in [Fields -> {p \in Placements : p.farmId <= 1}]}

\* the cycles of one FarmBot at one instant, over the fields of one farm: no
\* restart, no time passing
NextPasses ==
    \/ RunCycle
    \/ \E threw \in BOOLEAN : CheckAndBuyFuel(threw)
    \/ \E farms \in OneFarmHarvestSnapshots, threw \in BOOLEAN :
            GetHarvestingTasks(farms, threw)
    \/ \E farms \in OneFarmTabSnapshots, threw \in BOOLEAN : GetTabTasks(farms, threw)
    \/ \E prep \in {"seed", "null", "throws"}, resolved \in BOOLEAN,
          estimatedDuration \in Durations, response \in {"success", "failed", "throws"} :
            ExecuteTask(prep, resolved, estimatedDuration, response)
    \/ CheckAndSellProducts

\* the bot before its first cycle, the tasks it takes up being recorded
InitPasses ==
    /\ now = CycleTime
    /\ enabled = [a \in Accounts |-> TRUE]
    /\ OrchestratorIdle
    /\ farmBot \in [copy : FarmBotCopies, disableMaxTaskDuration : BOOLEAN]
    /\ harvestCache = NewHarvestCache
    /\ cycle = IdleCycle
    /\ lastTask = NoTask
    /\ lastHarvest = [f \in Fields |-> Null]
    /\ attempted = NoAttempts(TRUE)
    /\ snapshot = <<>>
    /\ taskType = "none"
    /\ extracted = <<>>
    /\ ResolverIdle
    /\ ApiIdle
    /\ SupplyIdle
    /\ AuthIdle

SpecPasses == InitPasses /\ [][NextPasses]_vars

\* the passes of FarmBot.runCycle in the order of its awaits
PassOrder == <<"refuel", "harvesting", "seeding", "cultivating", "selling">>

\* C17: within every cycle the passes run in the order refuel check, harvest
\* pass, seeding pass, cultivation pass, sell pass; a pass starts only when the
\* previous one has finished (a cycle may end early, it never skips or reorders)
C17_PassOrder ==
    [][cycle'.pass # cycle.pass
          => \/ cycle.pass = "idle" /\ cycle'.pass = PassOrder[1]
             \/ cycle'.pass = "idle"
             \/ \E j \in 1 .. (Len(PassOrder) - 1) :
                   /\ cycle.pass = PassOrder[j]
                   /\ cycle'.pass = PassOrder[j + 1]
                   /\ Len(cycle.tasks) <= 1
                   /\ cycle'.tasks = <<>>
                   /\ ~cycle'.fetched]_vars

\* C17 witness: a cycle that submitted a task has reached its sell pass
C17_Witness ==
    /\ cycle.pass = "selling"
    /\ lastTask.called
    /\ lastTask.result = "success"

----------------------------------------------------------------------------
(* Claims about the harvest pass and the cooldown cache *)

\* the fields a harvest tab response lists with canHarvest = 1
FlaggedFields(farms) ==
    {f \in Fields :
        \E i \in 1 .. Len(farms) : \E k \in 1 .. Len(farms[i].farmlands) :
            \E j \in 1 .. Len(farms[i].farmlands[k].data) :
                /\ farms[i].farmlands[k].data[j].id = f
                /\ farms[i].farmlands[k].data[j].canHarvest = 1}

\* the fields of the emitted tasks
ExtractedFields == {extracted[i].userFarmlandId : i \in 1 .. Len(extracted)}

\* a harvest is recorded for the field and less than 6 hours have elapsed since
InCooldown(f) ==
    harvestCache[f] # 0 /\ now - harvestCache[f] < MIN_HARVEST_INTERVAL_MS

\* C18: a harvesting task is emitted for a field only by the harvest pass, only
\* if the field's canHarvest flag is true and the field is not in cooldown; a
\* field in cooldown yields no harvesting task
C18_HarvestOnlyIfFlaggedAndCool ==
    \A i \in 1 .. Len(extracted) :
        extracted[i].type = "harvesting"
            => /\ taskType = "harvesting"
               /\ extracted[i].userFarmlandId \in FlaggedFields(snapshot)
               /\ ~InCooldown(extracted[i].userFarmlandId)

\* C18 witness: the harvest pass emitted a task while it skipped a flagged field
\* that is in cooldown
C18_Witness ==
    /\ taskType = "harvesting"
    /\ extracted # <<>>
    /\ \E f \in FlaggedFields(snapshot) : InCooldown(f) /\ f \notin ExtractedFields

\* C19: the cooldown cache reports a field eligible only if no harvest is
\* recorded for it or at least 6 hours have elapsed since the recorded one; a
\* record younger than 6 hours is never eligible, whatever its timestamp
C19_EligibleOnlyAfterCooldown ==
    \A f \in Fields :
        /\ canHarvest(harvestCache, f, now)
              => (harvestCache[f] = 0 \/ now - harvestCache[f] >= MIN_HARVEST_INTERVAL_MS)
        /\ InCooldown(f) => f \notin ExtractedFields

\* C19 witness: of two flagged fields the one harvested exactly 6 hours ago was
\* emitted and the one harvested a millisecond later was not
C19_Witness ==
    /\ taskType = "harvesting"
    /\ \E f, g \in FlaggedFields(snapshot) :
          /\ harvestCache[f] = now - MIN_HARVEST_INTERVAL_MS
          /\ f \in ExtractedFields
          /\ harvestCache[g] = now - MIN_HARVEST_INTERVAL_MS + 1
          /\ g \notin ExtractedFields

\* C20: a field's cooldown cache entry is written only when a harvesting
\* submission for that field succeeds (failed counter 0); skipped, failed and
\* non-harvest submissions leave every entry unchanged; no entry is ever removed
\* while the process runs
C20_CacheWrittenOnlyOnHarvestSuccess ==
    [][\A f \in Fields :
          /\ harvestCache'[f] # harvestCache[f]
                => /\ cycle.tasks # <<>>
                   /\ Head(cycle.tasks).type = "harvesting"
                   /\ Head(cycle.tasks).userFarmlandId = f
                   /\ lastTask'.called
                   /\ lastTask'.result = "success"
                   /\ harvestCache'[f] = now
          /\ harvestCache[f] # 0 => harvestCache'[f] # 0]_vars

----------------------------------------------------------------------------
(* Claims about the mapping of field states to tasks *)

\* the fields a tab response lists in a state; gated: only in categories with
\* nonzero cultivate capacity
FieldsInState(farms, state, gated) ==
    {f \in Fields :
        \E i \in 1 .. Len(farms) :
            LET category == farms[i].farmlands[state]
            IN  /\ category.present
                /\ gated => category.canCultivate > 0
                /\ \E j \in 1 .. Len(category.data) : category.data[j].id = f}

\* the (field, operation) pairs of a task list
TaskPairs(tasks) == {<<tasks[i].userFarmlandId, tasks[i].type>> : i \in 1 .. Len(tasks)}

\* the tasks a pass is to yield; seedingGated: the seeding and fertilizing passes
\* look at the cultivate capacity as the cultivation pass does
ExpectedPairs(farms, type, seedingGated) ==
    IF type = "cultivating"
    THEN {<<f, "plowing">> : f \in FieldsInState(farms, "cleared", TRUE)}
            \cup {<<f, "clearing">> : f \in FieldsInState(farms, "raw", TRUE)}
    ELSE IF type = "seeding"
    THEN {<<f, "seeding">> : f \in FieldsInState(farms, "fertilized", seedingGated)
                                    \cup FieldsInState(farms, "plowed", seedingGated)}
    ELSE {<<f, "fertilizing">> : f \in FieldsInState(farms, "plowed", seedingGated)}

\* C21 (as stated): the cultivation pass yields plowing for each cleared and
\* clearing for each raw field whose category has nonzero cultivate capacity,
\* the seeding pass yields seeding for each fertilized and each plowed field,
\* the fertilizing pass yields fertilizing for each plowed field, and nothing
\* else is emitted
C21_StateToTask ==
    taskType \in {"cultivating", "seeding", "fertilizing"}
        => LET tasks == extractTasksFromFarms(snapshot, taskType)
           IN  /\ TaskPairs(tasks) = ExpectedPairs(snapshot, taskType, FALSE)
               /\ Len(tasks) = Cardinality(TaskPairs(tasks))
               /\ extracted # <<>> => extracted = tasks

\* C21 (amended): as above, where in every pass a field yields its task only if
\* its category has nonzero cultivate capacity
C21_StateToTaskGated ==
    taskType \in {"cultivating", "seeding", "fertilizing"}
        => LET tasks == extractTasksFromFarms(snapshot, taskType)
           IN  /\ TaskPairs(tasks) = ExpectedPairs(snapshot, taskType, TRUE)
               /\ Len(tasks) = Cardinality(TaskPairs(tasks))
               /\ extracted # <<>> => extracted = tasks

\* C21 witness: a seeding pass emitted a task for a fertilized field and none
\* for a plowed field whose category has no cultivate capacity
C21_Witness ==
    /\ taskType = "seeding"
    /\ extracted # <<>>
    /\ \E f \in FieldsInState(snapshot, "fertilized", TRUE) :
            <<f, "seeding">> \in TaskPairs(extracted)
    /\ \E g \in FieldsInState(snapshot, "plowed", FALSE) :
            <<g, "seeding">> \notin TaskPairs(extracted)

----------------------------------------------------------------------------
(* Crop selection and seed purchase *)

\* one seeding task of the account, its remote data drawn from the bounded
\* sets; the dashboard sets and clears overrides while the bot prepares
InitSeed ==
    /\ now = StartTime
    /\ enabled = [a \in Accounts |-> a = ApiAccount]
    /\ OrchestratorIdle
    /\ FarmIdle
    /\ ResolverIdle
    /\ ApiIdle
    /\ farmData = NoOverrides
    /\ seedRequest \in SeedRequests
    /\ seedReply = NoSeedReply
    /\ bestSeed = NullSeed
    /\ prepared = NoPrepared
    /\ fuelStatus = NoFuelStatus
    /\ fuelOrder = NoFuelOrder
    /\ AuthIdle

NextSeed ==
    \/ \E farmlandId \in Farmlands, cropId \in CropIds \cup {Null} :
          SetFarmlandConfig(farmlandId, cropId)
    \/ \E threw1 \in BOOLEAN, threw2 \in BOOLEAN, buy \in BuyOutcomes :
          PrepareForSeeding(threw1, threw2, buy)

SpecSeed == InitSeed /\ [][NextSeed]_vars

\* the suitability entries of the request whose crop the market offers
\* unlocked and affordable
AvailableCrops(req) ==
    {req.cropScores[i] : i \in {j \in DOMAIN req.cropScores :
        \E k \in DOMAIN req.marketSeeds :
            /\ req.marketSeeds[k].id = req.cropScores[j].id
            /\ req.marketSeeds[k].unlocked = 1
            /\ req.marketSeeds[k].canAfford = 1}}

\* the field of the request has an override, and its crop is scored for the
\* field and available in the market
OverrideApplies ==
    /\ seedRequest.missing = "none"
    /\ farmData[seedRequest.farmlandId] \in CropIds
    /\ \E c \in AvailableCrops(seedRequest) : c.id = farmData[seedRequest.farmlandId]

\* C22: when the field has a configured crop override, and that crop is in the
\* field's suitability scores and unlocked and affordable in the market, crop
\* selection returns that crop, whatever the forced crop name and the scores of
\* the other crops
C22_OverrideWins ==
    OverrideApplies
        => \A threw \in BOOLEAN :
              getBestSeedForFarmland(farmData, seedRequest,
                                     getSeedStock(seedRequest.stock, threw)).cropId
                  = farmData[seedRequest.farmlandId]

\* the greatest suitability score of a non-empty set of entries
MaxScore(crops) == CHOOSE s \in {c.score : c \in crops} : \A c \in crops : c.score <= s

\* C23: with no applicable override and no forced crop name, crop selection
\* returns the crop with the highest suitability score among the crops that are
\* unlocked and affordable in the market (a higher-scoring crop that is locked
\* or unaffordable is skipped), and null when there is no such crop
C23_BestAvailableScore ==
    (seedRequest # NoSeedRequest /\ ~OverrideApplies /\ seedRequest.forceSeedName = "")
        => \A threw \in BOOLEAN :
              LET best == getBestSeedForFarmland(farmData, seedRequest,
                                                 getSeedStock(seedRequest.stock, threw))
                  available == AvailableCrops(seedRequest)
              IN  /\ available = {} => best.cropId = Null
                  /\ available # {} =>
                        /\ \E c \in available : c.id = best.cropId /\ c.score = best.score
                        /\ best.score = MaxScore(available)
                  /\ seedReply # NoSeedReply /\ seedReply.threw1 = threw => bestSeed = best

\* a prepared seeding where the highest-scoring crop of the field is locked and
\* the lower-scoring one was returned
C23_Witness ==
    /\ seedReply # NoSeedReply
    /\ ~OverrideApplies
    /\ seedRequest.forceSeedName = ""
    /\ Len(seedRequest.cropScores) = 2
    /\ bestSeed.cropId # Null
    /\ \E i \in DOMAIN seedRequest.cropScores :
          /\ seedRequest.cropScores[i].score > bestSeed.score
          /\ seedRequest.cropScores[i] \notin AvailableCrops(seedRequest)

\* prepareForSeeding has run on the request and settled on a crop
SeedSelected == seedReply # NoSeedReply /\ bestSeed.cropId # Null

\* n = ceil(area x kgPerHa), the area in tenths of a hectare
IsCeilOfProduct(n, area, kgPerHa) ==
    /\ 10 * n >= area * kgPerHa
    /\ 10 * (n - 1) < area * kgPerHa

IsCeilDuration(d, area, totalHaHour) ==
    /\ totalHaHour > 0
    /\ d * totalHaHour >= area * 3600
    /\ (d - 1) * totalHaHour < area * 3600

\* C25: the estimated duration the resolver returns equals
\* ceil(area / totalThroughput x 3600) seconds, totalThroughput being the sum of
\* the throughputs of the units returned, with no multiplication by the
\* complexity index
C25_DurationFromThroughput ==
    (optimal.done /\ ~optimal.isNull)
        => IsCeilDuration(optimal.estimatedDuration, request.area, SumHaHour(optimal.tractors))

\* C26: within one cycle each task is submitted at most once: a task whose
\* submission failed or was skipped is not taken up again in that cycle (no
\* task waiting in a pass has been taken up before, and no task waits twice),
\* and a failed or skipped task leaves nothing behind that would keep the next
\* cycle from discovering the field (the harvest cache is unchanged)
C26_NoRetryWithinCycle ==
    /\ [](/\ \A i \in DOMAIN cycle.tasks : TaskKey(cycle.tasks[i]) \notin attempted.keys
          /\ \A i, j \in DOMAIN cycle.tasks :
                TaskKey(cycle.tasks[i]) = TaskKey(cycle.tasks[j]) => i = j)
    /\ [][(lastTask' # lastTask /\ ~(lastTask'.called /\ lastTask'.result = "success"))
             => harvestCache' = harvestCache]_vars

\* C26 witness: a cycle went on to a later task after a submission the remote
\* refused
C26_Witness ==
    /\ attempted.recording
    /\ attempted.keys # {}
    /\ lastTask.called
    /\ lastTask.result = "failed"
    /\ cycle.tasks # <<>>

\* C27: an exception thrown inside an account's cycle does not escape the poll
\* loop: when the cycle that threw settles, the loop of a running orchestrator
\* goes on (it awaits the next due account or has armed its poll timer), and
\* the account's session receives a next-run time later than now, hence later
\* than the time at which the cycle was found due
C27_CycleErrorContained ==
    [][\A l \in BagToSet(loops), k \in 0 .. (RandDenom - 1) :
          FinishCycle(l, TRUE, k)
              => /\ isRunning
                    => \E m \in BagToSet(loops') :
                          \/ m.pc = "timer" /\ m.due = now + POLL_PERIOD_MS
                          \/ m.pc = "cycle" /\ m.nowSnap = l.nowSnap /\ m.pos > l.pos
                 /\ l.live
                    => /\ sessions'[l.acct].nextCycle > now
                       /\ sessions'[l.acct].nextCycle > l.nowSnap]_vars

\* C27 witness: the cycle of account 1 has settled (a cycle that threw settles
\* like any other), the account is scheduled later and the poll timer is armed
C27_Witness ==
    /\ isRunning
    /\ sessions[1].present
    /\ sessions[1].lastCycle # Null
    /\ sessions[1].nextCycle > now
    /\ \E m \in BagToSet(loops) : m.pc = "timer"

----------------------------------------------------------------------------
(* Refuel check *)

\* the refuel check of one cycle after another, the fuel silo's reply drawn
\* from the bounded sets
InitFuel ==
    /\ now = StartTime
    /\ enabled = [a \in Accounts |-> a = ApiAccount]
    /\ OrchestratorIdle
    /\ FarmIdle
    /\ ResolverIdle
    /\ ApiIdle
    /\ SupplyIdle
    /\ AuthIdle

NextFuel ==
    \E level \in FuelLevels, price \in FuelPrices,
       remaining \in FuelCapacities, buy \in BuyOutcomes :
          CheckFuel(level, price, remaining, buy)

SpecFuel == InitFuel /\ [][NextFuel]_vars

\* the fuel silo has been read
FuelChecked == fuelStatus # NoFuelStatus

\* C28: a refuel check that finds the level below 1000 L and remaining
\* capacity above zero orders min(2000 - level, remaining capacity); one that
\* finds the level at least 1000 L, the price below 1000 and remaining capacity
\* above zero orders the remaining capacity; an order is never larger than the
\* remaining capacity and never zero or negative (amount 0 records that no
\* order was placed, and nothing is bought without an order).
C28_RefuelAmount ==
    FuelChecked =>
        /\ (fuelStatus.siloHolding < 1000 /\ fuelStatus.remainingCapacity > 0)
              => /\ fuelOrder.amount > 0
                 /\ fuelOrder.amount <= 2000 - fuelStatus.siloHolding
                 /\ fuelOrder.amount <= fuelStatus.remainingCapacity
                 /\ \/ fuelOrder.amount = 2000 - fuelStatus.siloHolding
                    \/ fuelOrder.amount = fuelStatus.remainingCapacity
        /\ (/\ fuelStatus.siloHolding >= 1000
            /\ fuelStatus.fuelCost < 1000
            /\ fuelStatus.remainingCapacity > 0)
              => fuelOrder.amount = fuelStatus.remainingCapacity
        /\ fuelOrder.amount >= 0
        /\ fuelOrder.amount > 0 => fuelOrder.amount <= fuelStatus.remainingCapacity
        /\ fuelOrder.bought => fuelOrder.amount > 0

\* a low tank whose deficit to 2000 L exceeds the room left, the order capped
\* at the room left and accepted by the remote
C28_Witness ==
    /\ FuelChecked
    /\ fuelStatus.siloHolding < 1000
    /\ fuelStatus.remainingCapacity > 0
    /\ 2000 - fuelStatus.siloHolding > fuelStatus.remainingCapacity
    /\ fuelOrder.amount = fuelStatus.remainingCapacity
    /\ fuelOrder.bought

\* the resolver returned a selection for a multi-tractor operation
MultiTractorResult ==
    /\ optimal.done
    /\ ~optimal.isNull
    /\ request.opType \in {"seeding", "plowing"}

\* the candidate operation time of the selection sel, (area / total throughput)
\* * 3600 seconds (infinite for throughput 0), less the time until pending field
\* i needs a tractor, exceeds maxIdleTimeMinutes * 60 seconds
IdleTooLong(sel, i) ==
    LET total == SumHaHour(sel)
    IN  \/ total = 0
        \/ OperationArea(request) * 3600
              > (request.maxIdleTimeMinutes * 60 + request.pendingOps[i].opTimeRemain)
                   * total

\* C29: when more than one unit is selected and the potential idle time of some
\* pending field exceeds maxIdleTimeMinutes * 60 seconds, the resolver returns
\* the selection less exactly one unit, a unit of the lowest throughput among
\* those selected, however many pending fields exceed the limit; otherwise it
\* returns the selection unchanged.
C29_ReserveDropsSlowest ==
    MultiTractorResult =>
        LET sel == TractorsToUse(request)
        IN  IF /\ Len(sel) > 1
               /\ \E i \in 1 .. Len(request.pendingOps) : IdleTooLong(sel, i)
            THEN /\ Len(optimal.tractors) = Len(sel) - 1
                 /\ \E d \in 1 .. Len(sel) :
                       /\ \A j \in 1 .. Len(sel) : sel[d].haHour <= sel[j].haHour
                       /\ optimal.tractors
                             = SubSeq(sel, 1, d - 1) \o SubSeq(sel, d + 1, Len(sel))
            ELSE optimal.tractors = sel

\* three units of throughputs 2, 2 and 1 selected, two pending fields that would
\* both idle too long: the unit of throughput 1 is given up, two units stay
C29_Witness ==
    /\ MultiTractorResult
    /\ Len(TractorsToUse(request)) = 3
    /\ Len(request.pendingOps) = 2
    /\ \A i \in 1 .. 2 : IdleTooLong(TractorsToUse(request), i)
    /\ TractorsToUse(request)[3].haHour = 1
    /\ Len(optimal.tractors) = 2
    /\ \A j \in 1 .. 2 : optimal.tractors[j].haHour = 2

\* the implement of response.implements that unit u carries, if it was attached
\* by the resolver (the implements' ids differ from those the tractors carry)
AttachedImplements(u) ==
    {i \in 1 .. Len(request.implements) : request.implements[i].id = u.implementId}

\* C30: every unit the resolver added by auto-attach pairs an implement of the
\* requested operation type that is available with a tractor of the response
\* that is not pending, has at least the implement's minimum horsepower and is
\* in no earlier unit of the list; no tractor id appears twice among the usable
\* units nor in the returned list.
C30_AutoAttachPairsFreeTractor ==
    MultiTractorResult =>
        LET usable == UsableTractors(request)
        IN  /\ \A q \in 1 .. Len(usable) :
                  \A i \in AttachedImplements(usable[q]) :
                      /\ request.implements[i].type = request.opType
                      /\ request.implements[i].available > 0
                      /\ \E j \in 1 .. Len(request.tractors) :
                            /\ request.tractors[j].id = usable[q].tractorId
                            /\ ~request.tractors[j].isPending
                            /\ request.tractors[j].hp >= request.implements[i].minHp
                      /\ \A p \in 1 .. (q - 1) : usable[p].tractorId # usable[q].tractorId
            /\ \A p, q \in 1 .. Len(usable) :
                  p # q => usable[p].tractorId # usable[q].tractorId
            /\ \A p, q \in 1 .. Len(optimal.tractors) :
                  p # q => optimal.tractors[p].tractorId # optimal.tractors[q].tractorId

\* an equipped tractor selected first, then the implement attached to the other
\* tractor of the response, both units returned
C30_Witness ==
    /\ MultiTractorResult
    /\ Len(request.tractors) = 2
    /\ Len(optimal.tractors) = 2
    /\ \E p, q \in 1 .. 2 :
          /\ AttachedImplements(optimal.tractors[p]) = {}
          /\ optimal.tractors[p].tractorId = request.tractors[1].id
          /\ AttachedImplements(optimal.tractors[q]) # {}
          /\ optimal.tractors[q].tractorId = request.tractors[2].id

----------------------------------------------------------------------------
(* Claims about the progress of the poll loop *)

\* the orchestrator once started and not stopped
NextRunning ==
    \/ Tick
    \/ Start
    \/ \E i \in 1 .. Len(AccountList), ok \in BOOLEAN : AuthResolve(i, ok)
    \/ \E l \in BagToSet(loops), byHandle \in BOOLEAN : TimerFire(l, byHandle)
    \/ \E l \in BagToSet(loops), threw \in BOOLEAN, k \in 0 .. (RandDenom - 1) :
            FinishCycle(l, threw, k)

\* the event loop runs every timer that is due and resumes every await whose
\* promise settles; the clock advances; every authentication request and every
\* cycle settles
SpecRunning ==
    /\ Init
    /\ [][NextRunning]_vars
    /\ WF_vars(Tick)
    /\ WF_vars(\E i \in 1 .. Len(AccountList), ok \in BOOLEAN : AuthResolve(i, ok))
    /\ WF_vars(\E l \in BagToSet(loops), byHandle \in BOOLEAN : TimerFire(l, byHandle))
    /\ WF_vars(\E l \in BagToSet(loops), threw \in BOOLEAN, k \in 0 .. (RandDenom - 1) :
                  FinishCycle(l, threw, k))

\* the next-run time of the authenticated account a has passed
Due(a) == isRunning /\ sessions[a].present /\ sessions[a].nextCycle <= now

\* the modelled time has ended while a poll timer is still pending
HorizonReached ==
    /\ now = StartTime + MaxTicks * TickMs
    /\ \E l \in BagToSet(loops) : l.pc = "timer" /\ l.due > now

CycleStarted(m) ==
    /\ m.pc = "cycle"
    /\ m.live
    /\ CopiesIn(m, loops') > CopiesIn(m, loops)

\* C32: a cycle of an account is started only when the account has a session
\* and the current time is at or after the next-run timestamp of that session
C32_NoCycleBeforeDue ==
    [][\A m \in BagToSet(loops') :
          CycleStarted(m)
              => /\ sessions'[m.acct].present
                 /\ sessions'[m.acct].nextCycle <= now'
                 /\ sessions'[m.acct].nextCycle <= m.nowSnap]_vars

\* account 1 has completed a cycle and is not due again; the loop has gone on to
\* the cycle of account 2, which is due, and has left account 1 alone
C32_Witness ==
    /\ isRunning
    /\ sessions[1].present
    /\ sessions[1].lastCycle # Null
    /\ sessions[1].nextCycle > now
    /\ CyclesInFlight(1) = 0
    /\ sessions[2].present
    /\ sessions[2].nextCycle <= now
    /\ CyclesInFlight(2) = 1

----------------------------------------------------------------------------
(* Claims about crop selection: fallbacks *)

\* crop c is not among the crops scored for the field and available
Unusable(c, req) == ~\E x \in AvailableCrops(req) : x.id = c

\* C33: when the crop configured for the field is absent from the field's
\* suitability scores, or is not unlocked and affordable in the market, crop
\* selection returns what it returns for the same request with no crop
\* configured: both the selection step given the configured id, and the whole
\* call on the stored overrides.
C33_UnusableOverrideIgnored ==
    \A c \in CropIds, threw \in BOOLEAN :
        Unusable(c, seedRequest)
            => LET stock == getSeedStock(seedRequest.stock, threw)
               IN  /\ selectSeed(c, seedRequest, stock) = selectSeed(Null, seedRequest, stock)
                   /\ seedRequest # NoSeedRequest
                        => getBestSeedForFarmland(
                               [farmData EXCEPT ![seedRequest.farmlandId] = c],
                               seedRequest, stock)
                             = getBestSeedForFarmland(NoOverrides, seedRequest, stock)

\* the field's configured crop is scored for the field but locked in the
\* market, and the preparation has settled on the other crop
C33_Witness ==
    /\ seedReply # NoSeedReply
    /\ farmData[seedRequest.farmlandId] \in CropIds
    /\ Unusable(farmData[seedRequest.farmlandId], seedRequest)
    /\ \E i \in DOMAIN seedRequest.cropScores :
          seedRequest.cropScores[i].id = farmData[seedRequest.farmlandId]
    /\ bestSeed.cropId # Null
    /\ bestSeed.cropId # farmData[seedRequest.farmlandId]

\* the caller forces a crop name, and no crop of that name is scored for the
\* field and unlocked and affordable in the market
ForcedUnavailable(req) ==
    /\ req.forceSeedName # ""
    /\ ~\E x \in AvailableCrops(req) : x.name = req.forceSeedName

\* C34: when the caller forces a crop name and no suitability entry with that
\* name is unlocked and affordable in the market, crop selection returns null
\* (it does not fall back to the highest-scoring available crop), the
\* preparation returns null and orders no seed, so the field is not seeded in
\* that cycle
C34_ForcedNameNoFallback ==
    ForcedUnavailable(seedRequest)
        => /\ \A threw \in BOOLEAN :
                 /\ getBestSeedForFarmland(farmData, seedRequest,
                                           getSeedStock(seedRequest.stock, threw)) = NullSeed
                 /\ \A c \in CropIds :
                       Unusable(c, seedRequest)
                          => selectSeed(c, seedRequest,
                                        getSeedStock(seedRequest.stock, threw)) = NullSeed
           /\ seedReply # NoSeedReply
                 => /\ bestSeed = NullSeed
                    /\ prepared.seed = NullSeed
                    /\ prepared.order = 0

\* a forced name that matches no available crop while another crop is scored
\* and available: the preparation has returned null
C34_Witness ==
    /\ seedReply # NoSeedReply
    /\ ForcedUnavailable(seedRequest)
    /\ AvailableCrops(seedRequest) # {}
    /\ bestSeed = NullSeed
    /\ prepared.seed = NullSeed

----------------------------------------------------------------------------
(* Claims about start and stop *)

\* C35: at any time at most one poll loop exists for the orchestrator: one
\* pending poll timer or one executing loop body, never both and never two of
\* either
C35_SinglePollLoop == BagCardinality(loops) <= 1

\* C36: whenever the orchestrator is not running its running set is empty: no
\* account is reported as authenticated and no account session can be retrieved
C36_StoppedMeansNoSessions ==
    ~isRunning
        => \A a \in Accounts :
              /\ ~sessions[a].present
              /\ ~getStatus(sessions, isRunning, totalCycles).accounts[a].authenticated

\* C37: a call of start while the orchestrator is running, also while it is
\* still authenticating accounts, has no effect: it begins no authentication,
\* and leaves the running set, the cycle counters, the next-run timestamps, the
\* poll loop and its timer as they are
C37_StartWhileRunningIsNoOp ==
    [][(Start /\ isRunning)
          => /\ starts' = starts
             /\ sessions' = sessions
             /\ mapData' = mapData
             /\ totalCycles' = totalCycles
             /\ isRunning'
             /\ loops' = loops
             /\ mainLoopTimeout' = mainLoopTimeout]_vars

\* start was called again while the first start was still authenticating the
\* second account: the first account keeps its session, one authentication is
\* in flight
C37_Witness ==
    /\ startsIgnored = 1
    /\ isRunning
    /\ sessions[1].present
    /\ starts = <<0, 1>>

\* the sum of the cycle counts getStatus reports for the accounts
RECURSIVE SumCycleCounts(_, _)
SumCycleCounts(status, S) ==
    IF S = {} THEN 0
    ELSE LET a == SetMin(S)
         IN  status.accounts[a].cycleCount + SumCycleCounts(status, S \ {a})

\* C38: as long as no account is removed from the running set (the
\* orchestrator is not stopped), the total cycle count of the status equals the
\* sum of the cycle counts of the accounts in the running set, and each
\* completed cycle increases the total and the count of its account by exactly
\* one
C38_TotalIsSumOfCounts ==
    /\ [](SumCycleCounts(getStatus(sessions, isRunning, totalCycles), Accounts)
             = getStatus(sessions, isRunning, totalCycles).totalCycles)
    /\ [][\A l \in BagToSet(loops), threw \in BOOLEAN, k \in 0 .. (RandDenom - 1) :
             FinishCycle(l, threw, k)
                 => /\ totalCycles' = totalCycles + 1
                    /\ sessions'[l.acct].cycleCount = sessions[l.acct].cycleCount + 1
                    /\ \A b \in Accounts \ {l.acct} :
                          sessions'[b].cycleCount = sessions[b].cycleCount]_vars

\* both accounts have completed their first cycle
C38_Witness ==
    /\ isRunning
    /\ totalCycles = 2
    /\ sessions[1].cycleCount = 1
    /\ sessions[2].cycleCount = 1

----------------------------------------------------------------------------
(* Guest registration *)

\* the authentication of two guest accounts over repeated starts
InitAuth ==
    /\ now = StartTime
    /\ enabled = [a \in Accounts |-> TRUE]
    /\ OrchestratorIdle
    /\ FarmIdle
    /\ ResolverIdle
    /\ ApiIdle
    /\ SupplyIdle
    /\ AuthIdle

NextAuth ==
    \/ \E a \in Accounts : AuthenticateAccount(a)
    \/ \E a \in Accounts, created \in BOOLEAN : RegisterGuest(a, created)
    \/ \E a \in Accounts, ok \in BOOLEAN : LoginWithAndroidToken(a, ok)

SpecAuth == InitAuth /\ [][NextAuth]_vars

\* C39: once the remote has created a guest identity for an account, the
\* issued token is stored on the account and the account is token-authenticated
\* when the authentication call has returned, and no later start registers
\* another guest identity for the account
C39_GuestRegisteredOnce ==
    \A a \in Accounts :
        /\ guestIdentities[a] <= 1
        /\ (guestIdentities[a] >= 1 /\ authCalls[a].pc = "idle")
              => /\ accountAuth[a].type = "androidToken"
                 /\ accountAuth[a].androidToken # 0

====
